---- MODULE Spec2Model ----
(***************************************************************************)
(* Annotation engine of the MolViewSpec viewer extension.                  *)
(*                                                                         *)
(* The module models the custom model property "Annotations"               *)
(* (src/unnamed/part_000): parsing annotation rows from JSON / CIF data,   *)
(* resolving for every atom of a structural model the annotation row that  *)
(* applies to it, caching that resolution per model, and loading           *)
(* annotation files for a list of annotation specs.                        *)
(*                                                                         *)
(* JavaScript arrays are sequences; the 0-based index i of the source is   *)
(* position i + 1 of the sequence.  JavaScript objects are functions whose *)
(* DOMAIN is the set of own keys.                                          *)
(***************************************************************************)
EXTENDS Integers, Sequences, FiniteSets, TLC

(***************************************************************************)
(* Bounds of the model.                                                    *)
(***************************************************************************)
\* longest JSON array-of-objects payload drawn for an Annotation
MaxRows == 2
\* longest list of annotation specs given to Annotations.fromSpecs
MaxSpecs == 2
\* longest column of a JSON object-of-arrays payload given to getRowsFromJson
MaxColumn == 2

(***************************************************************************)
(* JavaScript helpers.                                                     *)
(***************************************************************************)
\* the value `undefined`
undefined == "undefined"

Min(S) == CHOOSE x \in S : \A y \in S : x <= y
Max(S) == CHOOSE x \in S : \A y \in S : x >= y

RECURSIVE SortSet(_)
\* the elements of a finite set of integers in increasing order
SortSet(S) == IF S = {} THEN <<>> ELSE <<Min(S)>> \o SortSet(S \ {Min(S)})

\* fill with the end offset taken as the last position filled
fill_Inclusive(arr, value, from, to) ==
    [j \in 1..Len(arr) |-> IF from <= j - 1 /\ j - 1 <= to THEN value ELSE arr[j]]

\* fill(value) without the offsets
fill_WholeArray(arr, value, from, to) == [j \in 1..Len(arr) |-> value]

\* Array.prototype.fill(value, start, end): negative offsets count from the
\* end, both offsets are clamped to the array, the length never changes
fill(arr, value, from, to) ==
    LET len == Len(arr)
        k == IF from < 0 THEN Max({len + from, 0}) ELSE Min({from, len})
        final == IF to < 0 THEN Max({len + to, 0}) ELSE Min({to, len})
    IN [j \in 1..len |-> IF k <= j - 1 /\ j - 1 < final THEN value ELSE arr[j]]

\* Array(n).fill(value)
ArrayFilled(n, value) == [j \in 1..n |-> value]

\* names of members that every plain object ({} or a parsed JSON object)
\* inherits from Object.prototype, and the member read under such a name
ObjectPrototypeKeys == {"toString", "constructor"}
Inherited(key) == "<Object.prototype." \o key \o ">"

\* obj[key] for a plain object given as a function of its own keys
GetProperty(obj, key) ==
    IF key \in DOMAIN obj
    THEN obj[key]
    ELSE IF key \in ObjectPrototypeKeys THEN Inherited(key) ELSE undefined

\* arr[i] for a 0-based index i; undefined outside the array
At(arr, i) == IF i \in 0..(Len(arr) - 1) THEN arr[i + 1] ELSE undefined

(***************************************************************************)
(* The field vocabulary of annotation rows (selector fields) and the       *)
(* annotation schemas.                                                     *)
(***************************************************************************)
ComponentExpression ==
    {"label_entity_id", "label_asym_id", "auth_asym_id",
     "label_seq_id", "auth_seq_id", "pdbx_PDB_ins_code",
     "beg_label_seq_id", "end_label_seq_id", "beg_auth_seq_id", "end_auth_seq_id",
     "label_atom_id", "auth_atom_id", "type_symbol", "atom_id", "atom_index"}

SchemaT ==
    {"whole-structure", "entity", "chain", "auth-chain", "residue", "auth-residue",
     "residue-range", "auth-residue-range", "atom", "auth-atom", "all-atomic"}

\* the selector fields that are meaningful for each schema
FieldsForSchemas ==
    [s \in SchemaT |->
        CASE s = "whole-structure" -> {}
          [] s = "entity" -> {"label_entity_id"}
          [] s = "chain" -> {"label_asym_id"}
          [] s = "auth-chain" -> {"auth_asym_id"}
          [] s = "residue" -> {"label_asym_id", "label_seq_id"}
          [] s = "auth-residue" -> {"auth_asym_id", "auth_seq_id", "pdbx_PDB_ins_code"}
          [] s = "residue-range" -> {"label_asym_id", "beg_label_seq_id", "end_label_seq_id"}
          [] s = "auth-residue-range" -> {"auth_asym_id", "beg_auth_seq_id", "end_auth_seq_id"}
          [] s = "atom" -> {"label_asym_id", "label_seq_id", "label_atom_id", "atom_id", "atom_index"}
          [] s = "auth-atom" -> {"auth_asym_id", "auth_seq_id", "pdbx_PDB_ins_code", "auth_atom_id",
                                 "atom_id", "atom_index"}
          [] s = "all-atomic" -> ComponentExpression]

(***************************************************************************)
(* Structural models.  A Model is an immutable sequence of atoms, grouped  *)
(* in contiguous chains and residues, with label and author numbering.     *)
(***************************************************************************)
AtomRec(e, c, ac, s, as, ic, la, aa, ts, id) ==
    [label_entity_id |-> e, label_asym_id |-> c, auth_asym_id |-> ac,
     label_seq_id |-> s, auth_seq_id |-> as, pdbx_PDB_ins_code |-> ic,
     label_atom_id |-> la, auth_atom_id |-> aa, type_symbol |-> ts, atom_id |-> id]

\* chain A (residues 12, 15, 25) and chain B (residue 15); author numbering is
\* unsorted and repeats residue number 5 with an insertion code
Model1 ==
    [id |-> "m1",
     atoms |-> << AtomRec("1", "A", "X", 12, 112, "", "CA", "CA", "C", 1),
                  AtomRec("1", "A", "X", 15, 5, "", "N", "N", "N", 2),
                  AtomRec("1", "A", "X", 15, 5, "", "CA", "CA", "C", 3),
                  AtomRec("1", "A", "X", 25, 5, "A", "CA", "CA", "C", 4),
                  AtomRec("2", "B", "Y", 15, 15, "", "O", "O1", "O", 6) >>]

\* chain B before chain A, other entity assignment, no residue 12 in chain A
Model2 ==
    [id |-> "m2",
     atoms |-> << AtomRec("1", "B", "X", 12, 15, "", "CA", "CA", "C", 1),
                  AtomRec("2", "A", "Y", 15, 5, "A", "O", "O", "O", 2) >>]

\* the models that locations are taken from (a location names an atom)
Models == {Model1, Model2}
ModelIds == {m.id : m \in Models}
ModelById(id) == CHOOSE m \in Models : m.id = id

nAtoms(model) == Len(model.atoms)
atomAt(model, i) == model.atoms[i + 1]
AtomIndices(model) == 0..(nAtoms(model) - 1)

(***************************************************************************)
(* Structural index (helpers/indexing): chain and residue segments as      *)
(* half-open atom ranges, and the lookup of an atom by its serial id.      *)
(***************************************************************************)
ChainKey(model, i) ==
    LET a == atomAt(model, i) IN <<a.label_entity_id, a.label_asym_id, a.auth_asym_id>>
ResidueKey(model, i) ==
    LET a == atomAt(model, i) IN <<a.label_seq_id, a.auth_seq_id, a.pdbx_PDB_ins_code>>

createIndicesAndSortings(model) ==
    LET n == nAtoms(model)
        chainStarts == {i \in 0..(n - 1) : i = 0 \/ ChainKey(model, i) # ChainKey(model, i - 1)}
        residueStarts == {i \in 0..(n - 1) :
                            i \in chainStarts \/ ResidueKey(model, i) # ResidueKey(model, i - 1)}
        segEnd(starts, s) == Min({t \in starts : t > s} \cup {n})
        ids == {atomAt(model, i).atom_id : i \in 0..(n - 1)}
    IN [chains |-> {<<s, segEnd(chainStarts, s)>> : s \in chainStarts},
        residues |-> {<<s, segEnd(residueStarts, s)>> : s \in residueStarts},
        atomIdIndex |-> [id \in ids |-> CHOOSE i \in 0..(n - 1) : atomAt(model, i).atom_id = id]]

(***************************************************************************)
(* Range matcher (helpers/selections, helpers/atom-ranges).                *)
(***************************************************************************)
has(row, f) == f \in DOMAIN row

\* the chain segment qualifies only when a chain-level field of the row
\* names it
chainQualifies_FieldRequired(model, seg, row) ==
    \E f \in {"label_entity_id", "label_asym_id", "auth_asym_id"} :
        has(row, f) /\ atomAt(model, seg[1])[f] = row[f]

\* does the chain segment seg satisfy the chain-level fields of the row
chainQualifies(model, seg, row) ==
    LET a == atomAt(model, seg[1])
    IN /\ has(row, "label_entity_id") => a.label_entity_id = row.label_entity_id
       /\ has(row, "label_asym_id") => a.label_asym_id = row.label_asym_id
       /\ has(row, "auth_asym_id") => a.auth_asym_id = row.auth_asym_id

\* the residue fields, with the bounds of a range taken as exclusive
residueQualifies_Exclusive(model, seg, row) ==
    LET a == atomAt(model, seg[1])
    IN /\ has(row, "label_seq_id") => a.label_seq_id = row.label_seq_id
       /\ has(row, "auth_seq_id") => a.auth_seq_id = row.auth_seq_id
       /\ has(row, "pdbx_PDB_ins_code") => a.pdbx_PDB_ins_code = row.pdbx_PDB_ins_code
       /\ has(row, "beg_label_seq_id") => a.label_seq_id > row.beg_label_seq_id
       /\ has(row, "end_label_seq_id") => a.label_seq_id < row.end_label_seq_id
       /\ has(row, "beg_auth_seq_id") => a.auth_seq_id > row.beg_auth_seq_id
       /\ has(row, "end_auth_seq_id") => a.auth_seq_id < row.end_auth_seq_id

\* does the residue segment seg satisfy the residue-level fields of the row
residueQualifies(model, seg, row) ==
    LET a == atomAt(model, seg[1])
    IN /\ has(row, "label_seq_id") => a.label_seq_id = row.label_seq_id
       /\ has(row, "auth_seq_id") => a.auth_seq_id = row.auth_seq_id
       /\ has(row, "pdbx_PDB_ins_code") => a.pdbx_PDB_ins_code = row.pdbx_PDB_ins_code
       /\ has(row, "beg_label_seq_id") => a.label_seq_id >= row.beg_label_seq_id
       /\ has(row, "end_label_seq_id") => a.label_seq_id <= row.end_label_seq_id
       /\ has(row, "beg_auth_seq_id") => a.auth_seq_id >= row.beg_auth_seq_id
       /\ has(row, "end_auth_seq_id") => a.auth_seq_id <= row.end_auth_seq_id

\* does atom i satisfy the atom-name / element fields of the row
atomFilterQualifies(model, i, row) ==
    LET a == atomAt(model, i)
    IN /\ has(row, "label_atom_id") => a.label_atom_id = row.label_atom_id
       /\ has(row, "auth_atom_id") => a.auth_atom_id = row.auth_atom_id
       /\ has(row, "type_symbol") => a.type_symbol = row.type_symbol

\* the atom named by atom_index / atom_id, as a set with at most one element
getTheAtomForRow(model, row, indices) ==
    LET byIndex == IF has(row, "atom_index")
                   THEN {row.atom_index} \cap AtomIndices(model)
                   ELSE AtomIndices(model)
        byId == IF has(row, "atom_id")
                THEN IF row.atom_id \in DOMAIN indices.atomIdIndex
                     THEN {indices.atomIdIndex[row.atom_id]}
                     ELSE {}
                ELSE AtomIndices(model)
    IN byIndex \cap byId

\* the ranges with their last atom given twice: closed at the upper end and
\* one past it
AtomRanges_PastEnd(S) ==
    LET starts == {i \in S : (i - 1) \notin S}
        stop(s) == Min({t \in (s + 1)..(Max(S) + 1) : t \notin S})
        sorted == SortSet(starts)
    IN [k \in 1..Len(sorted) |-> <<sorted[k], stop(sorted[k]) + 1>>]

\* ordered, non-overlapping half-open ranges <<from, to>> covering exactly S
AtomRanges(S) ==
    LET starts == {i \in S : (i - 1) \notin S}
        stop(s) == Min({t \in (s + 1)..(Max(S) + 1) : t \notin S})
        sorted == SortSet(starts)
    IN [k \in 1..Len(sorted) |-> <<sorted[k], stop(sorted[k])>>]

\* the atom ranges selected by one row: narrow by chain, then by residue,
\* then scan the remaining candidate atoms for the atom-level fields
getAtomRangesForRow(model, row, indices) ==
    LET chains == {c \in indices.chains : chainQualifies(model, c, row)}
        residues == {r \in indices.residues :
                        /\ \E c \in chains : c[1] <= r[1] /\ r[2] <= c[2]
                        /\ residueQualifies(model, r, row)}
        candidates == {i \in AtomIndices(model) : \E r \in residues : r[1] <= i /\ i < r[2]}
        hasAtomIds == has(row, "atom_id") \/ has(row, "atom_index")
        scope == IF hasAtomIds
                 THEN candidates \cap getTheAtomForRow(model, row, indices)
                 ELSE candidates
        selected == {i \in scope : atomFilterQualifies(model, i, row)}
    IN AtomRanges(selected)

\* does atom iAtom satisfy every field that is present in the row
atomQualifies(model, iAtom, row) ==
    LET a == atomAt(model, iAtom)
    IN /\ has(row, "label_entity_id") => a.label_entity_id = row.label_entity_id
       /\ has(row, "label_asym_id") => a.label_asym_id = row.label_asym_id
       /\ has(row, "auth_asym_id") => a.auth_asym_id = row.auth_asym_id
       /\ has(row, "label_seq_id") => a.label_seq_id = row.label_seq_id
       /\ has(row, "auth_seq_id") => a.auth_seq_id = row.auth_seq_id
       /\ has(row, "pdbx_PDB_ins_code") => a.pdbx_PDB_ins_code = row.pdbx_PDB_ins_code
       /\ has(row, "beg_label_seq_id") => a.label_seq_id >= row.beg_label_seq_id
       /\ has(row, "end_label_seq_id") => a.label_seq_id <= row.end_label_seq_id
       /\ has(row, "beg_auth_seq_id") => a.auth_seq_id >= row.beg_auth_seq_id
       /\ has(row, "end_auth_seq_id") => a.auth_seq_id <= row.end_auth_seq_id
       /\ has(row, "label_atom_id") => a.label_atom_id = row.label_atom_id
       /\ has(row, "auth_atom_id") => a.auth_atom_id = row.auth_atom_id
       /\ has(row, "type_symbol") => a.type_symbol = row.type_symbol
       /\ has(row, "atom_id") => a.atom_id = row.atom_id
       /\ has(row, "atom_index") => iAtom = row.atom_index

(***************************************************************************)
(* Annotation data.  AnnotationData is { format: 'json', data: Json } or   *)
(* { format: 'cif', data: CifCategory }.  A Json payload is an array of    *)
(* row objects (isArray) or an object of column arrays.  A CifCategory has *)
(* a row count and named fields; each cell has a value kind, its typed     *)
(* value and its text.                                                     *)
(***************************************************************************)
JsonArray(items) == [format |-> "json", data |-> [isArray |-> TRUE, items |-> items]]
JsonObject(cols) == [format |-> "json", data |-> [isArray |-> FALSE, cols |-> cols]]
CifData(category) == [format |-> "cif", data |-> category]

Present == "Present"
NotPresent == "NotPresent"
Unknown == "Unknown"
ValueKind == {Present, NotPresent, Unknown}
CellStr(v) == [kind |-> Present, value |-> v, str |-> v]
CellInt(v) == [kind |-> Present, value |-> v, str |-> ToString(v)]
\* '.' and '?' cells; Table.getRows would substitute the type default
CellStrNone(kind) == [kind |-> kind, value |-> "", str |-> ""]
CellIntNone(kind) == [kind |-> kind, value |-> 0, str |-> ""]

\* raw JSON rows: selector fields and payload fields (color, tooltip)
RowPool ==
    << [label_asym_id |-> "A", beg_label_seq_id |-> 10, end_label_seq_id |-> 20, color |-> "red"],
       [label_asym_id |-> "A", beg_label_seq_id |-> 15, end_label_seq_id |-> 15, color |-> "blue"],
       [type_symbol |-> "C", tooltip |-> "carbon"],
       [label_asym_id |-> "B", label_seq_id |-> 15, label_atom_id |-> "O",
        auth_asym_id |-> "X", auth_seq_id |-> 5, pdbx_PDB_ins_code |-> "A",
        beg_auth_seq_id |-> 5, end_auth_seq_id |-> 112, auth_atom_id |-> "CA", color |-> "white"],
       [label_entity_id |-> "1", label_asym_id |-> "A", beg_label_seq_id |-> 20,
        end_label_seq_id |-> 10, label_seq_id |-> 15, type_symbol |-> "N", atom_index |-> 1,
        atom_id |-> 2, color |-> "yellow"] >>

RECURSIVE SeqsUpTo(_, _)
\* all sequences over S of length at most n
SeqsUpTo(S, n) ==
    IF n = 0 THEN {<< >>}
    ELSE LET shorter == SeqsUpTo(S, n - 1)
         IN shorter \cup {Append(q, x) : q \in shorter, x \in S}

\* JSON array-of-objects payloads: at most MaxRows rows of the pool, no row
\* twice, in every order
JsonArrayPool ==
    {JsonArray([k \in 1..Len(q) |-> RowPool[q[k]]]) :
        q \in {r \in SeqsUpTo(1..Len(RowPool), MaxRows) :
                  \A i, j \in 1..Len(r) : i # j => r[i] # r[j]}}

\* JSON object-of-arrays payloads: equal columns, a short selector column,
\* a short payload column, no selector column at all
JsonObjectPool ==
    {JsonObject([label_asym_id |-> <<"A", "B">>, label_seq_id |-> <<15, 15>>,
                 color |-> <<"red", "blue">>]),
     JsonObject([label_asym_id |-> <<"A", "B">>, type_symbol |-> <<"C">>,
                 color |-> <<"red", "blue">>]),
     JsonObject([auth_asym_id |-> <<"X", "Y">>, color |-> <<"red">>]),
     JsonObject([color |-> <<"red", "blue">>, tooltip |-> <<"one", "two">>])}

\* CIF categories, with '.' and '?' cells and fields the schemas do not name
CategoryAnnot ==
    [name |-> "annot", rowCount |-> 2,
     fields |-> [label_asym_id |-> <<CellStr("A"), CellStrNone(NotPresent)>>,
                 label_seq_id |-> <<CellInt(15), CellIntNone(Unknown)>>,
                 type_symbol |-> <<CellStrNone(Unknown), CellStr("C")>>,
                 color |-> <<CellStr("red"), CellStrNone(NotPresent)>>]]
CategoryOther ==
    [name |-> "other", rowCount |-> 2,
     fields |-> [auth_asym_id |-> <<CellStr("X"), CellStr("Y")>>,
                 beg_auth_seq_id |-> <<CellInt(5), CellIntNone(NotPresent)>>,
                 end_auth_seq_id |-> <<CellIntNone(Unknown), CellInt(15)>>,
                 color |-> <<CellStr("blue"), CellStr("green")>>,
                 tooltip |-> <<CellStrNone(Unknown), CellStr("two")>>]]

CifPool == {CifData(CategoryAnnot), CifData(CategoryOther)}

\* field names asked for by consumers (payload fields)
FieldNames == {"color", "tooltip", "toString"}

(***************************************************************************)
(* Parsing rows.                                                           *)
(***************************************************************************)
\* the object handed back with all its keys
pickObjectKeys_All(obj, keys) == obj

\* utils.pickObjectKeys: the own keys of obj among keys, with their values
pickObjectKeys(obj, keys) == [k \in (DOMAIN obj) \cap keys |-> obj[k]]

\* Object.keys of the objects of this module: their keys are field names,
\* none of which is an array index, so the order is the insertion order; the
\* payload lists its keys in the order of KeyOrder
KeyOrder ==
    << "label_entity_id", "label_asym_id", "auth_asym_id", "label_seq_id", "auth_seq_id",
       "pdbx_PDB_ins_code", "beg_label_seq_id", "end_label_seq_id", "beg_auth_seq_id",
       "end_auth_seq_id", "label_atom_id", "auth_atom_id", "type_symbol", "atom_id",
       "atom_index", "color", "tooltip" >>
ObjectKeys(obj) == SelectSeq(KeyOrder, LAMBDA k : k \in DOMAIN obj)

Ok(rows) == [threw |-> FALSE, rows |-> rows]
FormatError == [threw |-> TRUE, rows |-> << >>]

\* the rows built without the test of the lengths, up to the length of the
\* shortest column
getRowsFromJson_Unchecked(js, schema) ==
    IF js.isArray
    THEN Ok([i \in 1..Len(js.items) |-> pickObjectKeys(js.items[i], FieldsForSchemas[schema])])
    ELSE LET keys == (DOMAIN js.cols) \cap FieldsForSchemas[schema]
         IN IF keys = {}
            THEN Ok(<< >>)
            ELSE Ok([i \in 1..Min({Len(js.cols[key]) : key \in keys}) |->
                        [key \in keys |-> js.cols[key][i]]])

getRowsFromJson(js, schema) ==
    IF js.isArray
    THEN \* array of objects
         Ok([i \in 1..Len(js.items) |-> pickObjectKeys(js.items[i], FieldsForSchemas[schema])])
    ELSE \* object of arrays
         LET wantedKeys == FieldsForSchemas[schema]
             keys == SelectSeq(ObjectKeys(js.cols), LAMBDA key : key \in wantedKeys)
         IN IF Len(keys) > 0
            THEN LET n == Len(js.cols[keys[1]])
                 IN IF \E k \in 1..Len(keys) : Len(js.cols[keys[k]]) # n
                    THEN FormatError
                    ELSE Ok([i \in 1..n |->
                                [key \in {keys[k] : k \in 1..Len(keys)} |-> js.cols[key][i]]])
            ELSE Ok(<< >>)

\* Table.getRows: every column in every row, '.' and '?' cells by their type
\* default
getRowsFromTable_Defaults(table) ==
    [iRow \in 1..table.rowCount |->
        [col \in table.columns |-> table.cell[col][iRow].value]]

\* rows of the table, omitting the fields whose value is not Present
getRowsFromTable(table) ==
    [iRow \in 1..table.rowCount |->
        [col \in {c \in table.columns : table.cell[c][iRow].kind = Present} |->
            table.cell[col][iRow].value]]

\* toTable(schema, category): one column per schema field; a field that the
\* category does not declare is an undefined column (never Present)
toTable(cifSchema, category) ==
    [rowCount |-> category.rowCount,
     columns |-> cifSchema,
     cell |-> [c \in cifSchema |->
                 IF c \in DOMAIN category.fields
                 THEN category.fields[c]
                 ELSE [iRow \in 1..category.rowCount |-> CellStrNone(NotPresent)]]]

getRowsFromCif(category, schema) ==
    Ok(getRowsFromTable(toTable(FieldsForSchemas[schema], category)))

getRows(data, schema) ==
    IF data.format = "json"
    THEN getRowsFromJson(data.data, schema)
    ELSE getRowsFromCif(data.data, schema)

(***************************************************************************)
(* Row resolution.                                                         *)
(***************************************************************************)
RECURSIVE rangesForeach(_, _, _)
\* rangesForeach(atomRanges, (from, to) => result.fill(i, from, to))
rangesForeach(atomRanges, i, result) ==
    IF atomRanges = << >>
    THEN result
    ELSE rangesForeach(Tail(atomRanges), i,
                       fill(result, i, Head(atomRanges)[1], Head(atomRanges)[2]))

RECURSIVE fillRows(_, _, _, _, _)
\* the loop of getRowForEachAtom from row i on
fillRows(model, indices, rows, i, result) ==
    IF i >= Len(rows)
    THEN result
    ELSE fillRows(model, indices, rows, i + 1,
                  rangesForeach(getAtomRangesForRow(model, rows[i + 1], indices), i, result))

RECURSIVE fillRowsKeep(_, _, _, _, _)
\* the loop run from the last row down to row 0: the first matching row wins
fillRowsKeep(model, indices, rows, i, result) ==
    IF i < 0
    THEN result
    ELSE fillRowsKeep(model, indices, rows, i - 1,
                      rangesForeach(getAtomRangesForRow(model, rows[i + 1], indices), i, result))

getRowForEachAtom_FirstWins(model, rows) ==
    fillRowsKeep(model, createIndicesAndSortings(model), rows, Len(rows) - 1,
                 ArrayFilled(nAtoms(model), -1))

\* the loop run on an array that starts out filled with 0
getRowForEachAtom_ZeroFilled(model, rows) ==
    fillRows(model, createIndicesAndSortings(model), rows, 0, ArrayFilled(nAtoms(model), 0))

\* the loop left after its first row, as a task suspended inside it would
\* leave the array
getRowForEachAtom_FirstRowOnly(model, rows) ==
    fillRows(model, createIndicesAndSortings(model), SubSeq(rows, 1, Min({1, Len(rows)})), 0,
             ArrayFilled(nAtoms(model), -1))

\* ElementIndex -> index of the annotation row, -1 where no row applies
getRowForEachAtom(model, rows) ==
    fillRows(model, createIndicesAndSortings(model), rows, 0, ArrayFilled(nAtoms(model), -1))

RECURSIVE referenceLoop(_, _, _, _, _)
referenceLoop(model, iAtom, rows, i, result) ==
    IF i >= Len(rows)
    THEN result
    ELSE referenceLoop(model, iAtom, rows, i + 1,
                       IF atomQualifies(model, iAtom, rows[i + 1]) THEN i ELSE result)

\* the row found by the reference implementation, named by its index in the
\* row list; -1 stands for `undefined`
getAnnotationForLocation_Reference(model, iAtom, rows) ==
    referenceLoop(model, iAtom, rows, 0, -1)

(***************************************************************************)
(* Field access.                                                           *)
(***************************************************************************)
\* the row index taken as a 1-based position
getValueFromJson_OneBased(rowIndex, fieldName, js) ==
    IF js.isArray
    THEN LET row == IF rowIndex \in 1..Len(js.items) THEN js.items[rowIndex] ELSE << >>
         IN IF fieldName \in DOMAIN row THEN row[fieldName] ELSE undefined
    ELSE LET column == IF fieldName \in DOMAIN js.cols THEN js.cols[fieldName] ELSE << >>
         IN At(column, rowIndex - 1)

\* row[fieldName] of js[rowIndex] ?? {}, or column[rowIndex] of js[fieldName] ?? []
getValueFromJson(rowIndex, fieldName, js) ==
    IF js.isArray
    THEN LET row == IF rowIndex \in 0..(Len(js.items) - 1)
                    THEN js.items[rowIndex + 1]
                    ELSE << >>
         IN GetProperty(row, fieldName)
    ELSE \* an inherited member of the payload object is a function, which
         \* has no property named by a row index
         LET column == IF fieldName \in DOMAIN js.cols THEN js.cols[fieldName] ELSE << >>
         IN At(column, rowIndex)

\* text returned for a row outside the column (whatever the column's
\* storage holds there)
OutOfRangeText == "<out of range>"

\* the results getValueFromCif can give; the value kind and the text of a
\* row outside the column depend on the column's storage
getValueFromCif(rowIndex, fieldName, category) ==
    IF fieldName \notin DOMAIN category.fields
    THEN {undefined}
    ELSE IF rowIndex \in 0..(category.rowCount - 1)
         THEN LET cell == category.fields[fieldName][rowIndex + 1]
              IN IF cell.kind # Present THEN {undefined} ELSE {cell.str}
         ELSE {undefined, OutOfRangeText}

(***************************************************************************)
(* State.                                                                  *)
(***************************************************************************)
VARIABLES
    schema,         \* Annotation.schema
    data,           \* Annotation.data
    indexedModels,  \* Annotation.indexedModels: model id -> [ref, arr], where arr is
                    \* the array and ref names the array instance (the n-th array
                    \* built for that model id)
    built,          \* model id -> number of arrays getRowForEachAtom has returned
    queried,        \* the model ids getValueForLocation was called for so far
    last            \* the last getValueForLocation call and its outcome

annotVars == <<schema, data, indexedModels, built, queried, last>>

NoCall == [called |-> FALSE]

indexedModelsHas_Never(key) == FALSE

\* this.indexedModels.has(key)
indexedModelsHas(key) == key \in DOMAIN indexedModels

\* new Annotation(data, schema)
AnnotInit ==
    /\ schema \in SchemaT
    /\ data \in JsonArrayPool \cup JsonObjectPool \cup CifPool
    /\ indexedModels = << >>
    /\ built = [m \in ModelIds |-> 0]
    /\ queried = {}
    /\ last = NoCall

\* this.getIndexedModel(model) for the model of identity key: what it
\* returns (the cached entry, or a new array that is then cached), or that
\* getRows threw inside getRowForEachAtom
getIndexedModel(key) ==
    IF indexedModelsHas(key)
    THEN [threw |-> FALSE, computed |-> FALSE, entry |-> indexedModels[key]]
    ELSE LET parsed == getRows(data, schema)
         IN IF parsed.threw
            THEN [threw |-> TRUE, computed |-> FALSE, entry |-> [ref |-> 0, arr |-> << >>]]
            ELSE [threw |-> FALSE, computed |-> TRUE,
                  entry |-> [ref |-> built[key] + 1,
                             arr |-> getRowForEachAtom(ModelById(key), parsed.rows)]]

\* the call with a cache of one slot: a new array takes the place of the
\* one that was there
getValueForLocation_SingleSlot(key, element, fieldName, indexed) ==
    IF indexed.threw
    THEN \* nothing is stored
         /\ last' = [called |-> TRUE, threw |-> TRUE, model |-> key, element |-> element,
                     fieldName |-> fieldName]
         /\ queried' = queried \cup {key}
         /\ UNCHANGED <<schema, data, indexedModels, built>>
    ELSE \E value \in (IF data.format = "json"
                       THEN {getValueFromJson(indexed.entry.arr[element + 1], fieldName,
                                              data.data)}
                       ELSE getValueFromCif(indexed.entry.arr[element + 1], fieldName,
                                            data.data)) :
            /\ indexedModels' = IF indexed.computed
                                THEN [k \in {key} |-> indexed.entry]
                                ELSE indexedModels
            /\ built' = IF indexed.computed THEN [built EXCEPT ![key] = @ + 1] ELSE built
            /\ queried' = queried \cup {key}
            /\ last' = [called |-> TRUE, threw |-> FALSE, model |-> key,
                        element |-> element, fieldName |-> fieldName,
                        computed |-> indexed.computed, ref |-> indexed.entry.ref,
                        iRow |-> indexed.entry.arr[element + 1], value |-> value]
            /\ UNCHANGED <<schema, data>>

\* annotation.getValueForLocation(loc, fieldName) with loc.unit.model = the
\* model of identity key and loc.element = element; indexed is the outcome
\* of its call of getIndexedModel
getValueForLocation(key, element, fieldName, indexed) ==
    IF indexed.threw
    THEN \* nothing is stored
         /\ last' = [called |-> TRUE, threw |-> TRUE, model |-> key, element |-> element,
                     fieldName |-> fieldName]
         /\ queried' = queried \cup {key}
         /\ UNCHANGED <<schema, data, indexedModels, built>>
    ELSE \E value \in (IF data.format = "json"
                       THEN {getValueFromJson(indexed.entry.arr[element + 1], fieldName,
                                              data.data)}
                       ELSE getValueFromCif(indexed.entry.arr[element + 1], fieldName,
                                            data.data)) :
            /\ indexedModels' = IF indexed.computed
                                THEN [k \in (DOMAIN indexedModels) \cup {key} |->
                                         IF k = key THEN indexed.entry ELSE indexedModels[k]]
                                ELSE indexedModels
            /\ built' = IF indexed.computed THEN [built EXCEPT ![key] = @ + 1] ELSE built
            /\ queried' = queried \cup {key}
            /\ last' = [called |-> TRUE, threw |-> FALSE, model |-> key,
                        element |-> element, fieldName |-> fieldName,
                        computed |-> indexed.computed, ref |-> indexed.entry.ref,
                        iRow |-> indexed.entry.arr[element + 1], value |-> value]
            /\ UNCHANGED <<schema, data>>

GetValueForLocation ==
    \E key \in ModelIds :
        \E indexed \in {getIndexedModel(key)} :
            \E element \in AtomIndices(ModelById(key)) :
                \E fieldName \in FieldNames :
                    getValueForLocation(key, element, fieldName, indexed)

(***************************************************************************)
(* Annotation files.  A CifFile is a list of blocks; block.categories is   *)
(* an object keyed by category name, given here by the names in the order  *)
(* the block declares them (the order its keys were inserted) and the      *)
(* category of each name.                                                  *)
(***************************************************************************)
CifBlock(header, declared, byName) ==
    [header |-> header, categories |-> [declared |-> declared, byName |-> byName]]

CategoryNamed(name) == [name |-> name, rowCount |-> 0, fields |-> << >>]

CifFileX ==
    [blocks |-> << CifBlock("B0", <<"annot", "other">>,
                            [n \in {"annot", "other"} |->
                                IF n = "annot" THEN CategoryAnnot ELSE CategoryOther]),
                   CifBlock("B1", << >>, << >>),
                   CifBlock("B0", <<"zeta", "1">>, [n \in {"zeta", "1"} |-> CategoryNamed(n)]) >>]
CifFileEmpty == [blocks |-> << >>]

\* what the asset manager holds for each url: the kind of the raw data and
\* what a parser of that kind makes of it; other urls cannot be resolved
Assets ==
    [url \in {"a.json", "b.json", "c.json", "bad.json", "x.cif", "x.bcif", "empty.cif"} |->
        CASE url = "a.json" -> [kind |-> "json", parsed |-> JsonArray(<<RowPool[1], RowPool[2]>>).data]
          [] url = "b.json" -> [kind |-> "json",
                                parsed |-> [isArray |-> FALSE,
                                            cols |-> [label_asym_id |-> <<"A", "B">>,
                                                      color |-> <<"red", "blue">>]]]
          [] url = "c.json" -> [kind |-> "json",
                                parsed |-> [isArray |-> FALSE,
                                            cols |-> [label_asym_id |-> <<"A", "B">>,
                                                      type_symbol |-> <<"C">>,
                                                      color |-> <<"red", "blue">>]]]
          [] url = "bad.json" -> [kind |-> "garbage", parsed |-> undefined]
          [] url = "x.cif" -> [kind |-> "cif", parsed |-> CifFileX]
          [] url = "x.bcif" -> [kind |-> "bcif", parsed |-> CifFileX]
          [] url = "empty.cif" -> [kind |-> "cif", parsed |-> CifFileEmpty]]

Fulfilled(value) == [state |-> "fulfilled", value |-> value]
Rejected(reason) == [state |-> "rejected", reason |-> reason]
Pending == [state |-> "pending"]

\* the outcome of getFileFromSource(ctx, source): the asset is resolved as a
\* string (json, cif) or as binary data (bcif) and parsed as the format says
getFileFromSource(source) ==
    IF source.url \notin DOMAIN Assets
    THEN Rejected("asset not resolved")
    ELSE LET asset == Assets[source.url]
         IN CASE source.format = "json" ->
                    IF asset.kind = "json"
                    THEN Fulfilled([format |-> "json", data |-> asset.parsed])
                    ELSE Rejected("SyntaxError")
              [] source.format = "cif" ->
                    IF asset.kind = "cif"
                    THEN Fulfilled([format |-> "cif", data |-> asset.parsed])
                    ELSE Rejected("Failed to parse cif")
              [] source.format = "bcif" ->
                    IF asset.kind = "bcif"
                    THEN Fulfilled([format |-> "cif", data |-> asset.parsed])
                    ELSE Rejected("Failed to parse bcif")

\* `${src.format}:${src.url}`
sourceKey(src) == src.format \o ":" \o src.url

(***************************************************************************)
(* Annotation.fromSpec: block and category selection.                      *)
(***************************************************************************)
\* property names that are array indices, with their numeric value
ArrayIndexOf == ("0" :> 0) @@ ("1" :> 1) @@ ("2" :> 2)

\* Object.keys of an object whose keys were inserted in the order `declared`:
\* array-index keys in ascending numeric order, then the other keys in
\* insertion order
ObjectKeysInserted(declared) ==
    LET isIndex(k) == k \in DOMAIN ArrayIndexOf
        indexKeys == {declared[p] : p \in {q \in 1..Len(declared) : isIndex(declared[q])}}
        sortedIdx == SortSet({ArrayIndexOf[k] : k \in indexKeys})
        keyOf(n) == CHOOSE k \in indexKeys : ArrayIndexOf[k] = n
    IN [p \in 1..Len(sortedIdx) |-> keyOf(sortedIdx[p])]
       \o SelectSeq(declared, LAMBDA k : ~isIndex(k))

Returned(value) == [threw |-> FALSE, value |-> value]
Thrown(error) == [threw |-> TRUE, error |-> error]

\* the switch with the last block of a matching header, and with the index
\* wrapped around the block list
selectBlock_LastMatch(blocks, blockSpec) ==
    CASE blockSpec.name = "header" ->
            LET found == {k \in 1..Len(blocks) : blocks[k].header = blockSpec.params.header}
            IN IF found = {}
               THEN Thrown("CIF block with header not found")
               ELSE Returned(blocks[Max(found)])
      [] blockSpec.name = "index" ->
            Returned(blocks[(blockSpec.params.index % Len(blocks)) + 1])
      [] blockSpec.name = "first" ->
            Returned(blocks[1])

\* the switch on blockSpec.name
selectBlock(blocks, blockSpec) ==
    CASE blockSpec.name = "header" ->
            LET found == {k \in 1..Len(blocks) : blocks[k].header = blockSpec.params.header}
            IN IF found = {}
               THEN Thrown("CIF block with header not found")
               ELSE Returned(blocks[Min(found)])
      [] blockSpec.name = "index" ->
            IF blockSpec.params.index \in 0..(Len(blocks) - 1)
            THEN Returned(blocks[blockSpec.params.index + 1])
            ELSE Thrown("CIF block with index not found")
      [] blockSpec.name = "first" ->
            Returned(blocks[1])

\* spec.cifCategory ?? Object.keys(block.categories)[0], and the lookup
selectCategory(block, cifCategory) ==
    LET keys == ObjectKeysInserted(block.categories.declared)
        categoryName == IF cifCategory # undefined
                        THEN cifCategory
                        ELSE IF Len(keys) > 0 THEN keys[1] ELSE undefined
    IN IF categoryName = undefined \/ categoryName = ""
       THEN Thrown("There are no categories in CIF block")
       ELSE IF categoryName \notin DOMAIN block.categories.byName
            THEN Thrown("CIF category not found")
            ELSE Returned(block.categories.byName[categoryName])

\* new Annotation(data, schema)
Annotation(annotationData, annotationSchema) ==
    [data |-> annotationData, schema |-> annotationSchema]

\* Annotation.fromSpec(ctx, spec, file) for a file that is given
fromSpec(spec, file) ==
    IF file.format = "json"
    THEN Returned(Annotation(file, spec.schema))
    ELSE IF Len(file.data.blocks) = 0
         THEN Thrown("No block in CIF")
         ELSE LET block == selectBlock(file.data.blocks, spec.cifBlock)
              IN IF block.threw
                 THEN block
                 ELSE LET category == selectCategory(block.value, spec.cifCategory)
                      IN IF category.threw
                         THEN category
                         ELSE Returned(Annotation(CifData(category.value), spec.schema))

(***************************************************************************)
(* Annotation specs.                                                       *)
(***************************************************************************)
BlockFirst == [name |-> "first", params |-> << >>]
BlockIndex(index) == [name |-> "index", params |-> [index |-> index]]
BlockHeader(header) == [name |-> "header", params |-> [header |-> header]]

AnnotationSpec(url, format, annotationSchema, cifBlock, cifCategory, id) ==
    [url |-> url, format |-> format, schema |-> annotationSchema, cifBlock |-> cifBlock,
     cifCategory |-> cifCategory, id |-> id]

SpecPool ==
    << AnnotationSpec("a.json", "json", "residue-range", BlockFirst, undefined, "a"),
       AnnotationSpec("a.json", "json", "chain", BlockFirst, undefined, "b"),
       AnnotationSpec("b.json", "json", "chain", BlockIndex(0), undefined, "c"),
       AnnotationSpec("bad.json", "json", "chain", BlockFirst, undefined, "d"),
       AnnotationSpec("gone.json", "json", "chain", BlockFirst, undefined, "e"),
       AnnotationSpec("x.cif", "cif", "chain", BlockFirst, undefined, "a"),
       AnnotationSpec("x.cif", "cif", "residue", BlockIndex(1), undefined, "f"),
       AnnotationSpec("x.cif", "cif", "chain", BlockIndex(2), undefined, "g"),
       AnnotationSpec("x.cif", "cif", "auth-chain", BlockHeader("B0"), "other", "h"),
       AnnotationSpec("x.cif", "cif", "chain", BlockHeader("B0"), undefined, "i"),
       AnnotationSpec("x.cif", "cif", "chain", BlockHeader("nope"), undefined, "j"),
       AnnotationSpec("x.cif", "cif", "chain", BlockIndex(3), "annot", "k"),
       AnnotationSpec("x.cif", "cif", "chain", BlockIndex(-1), undefined, "l"),
       AnnotationSpec("x.cif", "cif", "chain", BlockFirst, "absent", "m"),
       AnnotationSpec("empty.cif", "cif", "chain", BlockFirst, undefined, "n"),
       AnnotationSpec("x.bcif", "bcif", "all-atomic", BlockIndex(0), "annot", "o"),
       AnnotationSpec("x.cif", "bcif", "chain", BlockFirst, undefined, "p"),
       AnnotationSpec("x.cif", "cif", "chain", BlockIndex(2), "zeta", "q"),
       AnnotationSpec("c.json", "json", "all-atomic", BlockFirst, undefined, "r"),
       AnnotationSpec("a.json", "json", "chain", BlockFirst, undefined, "__proto__") >>

(***************************************************************************)
(* Annotations.fromSpecs: state of one load.                               *)
(***************************************************************************)
VARIABLES
    specs,      \* the list of annotation specs given to fromSpecs
    promises,   \* getFileFromSources: key -> promise, with the keys in insertion order
    fetches,    \* key -> number of getFileFromSource calls made for that key
    pc,         \* "start", "awaitFiles", "loop", "resolved", "rejected"
    iSpec,      \* the loop index i of fromSpecs
    files,      \* `data` of fromSpecs: the file of each spec
    dict,       \* the dictionary id -> Annotation being built
    made,       \* the outcome of each Annotation.fromSpec call so far
    failure,    \* the error fromSpecs rejected with
    got         \* the last Annotations.getAnnotation call and what it returned

loadVars == <<specs, promises, fetches, pc, iSpec, files, dict, made, failure, got>>

\* a JavaScript object with string keys: its keys in insertion order, and
\* the value of each key
ObjectPrototype == [kind |-> "Object.prototype"]
EmptyObject == [order |-> << >>, of |-> << >>, proto |-> ObjectPrototype]
ObjectHas(obj, key) == key \in DOMAIN obj.of
\* obj[key] = value, for a value that is an object: the key __proto__ is the
\* accessor of Object.prototype, which makes the value the prototype of obj
\* and adds no own property
ObjectSet(obj, key, value) ==
    IF key = "__proto__"
    THEN [order |-> obj.order, of |-> obj.of, proto |-> [kind |-> "object", value |-> value]]
    ELSE [order |-> IF ObjectHas(obj, key) THEN obj.order ELSE Append(obj.order, key),
          of |-> [k \in (DOMAIN obj.of) \cup {key} |-> IF k = key THEN value ELSE obj.of[k]],
          proto |-> obj.proto]

Increment(counts, key) ==
    [k \in (DOMAIN counts) \cup {key} |->
        IF k = key THEN (IF key \in DOMAIN counts THEN counts[key] + 1 ELSE 1) ELSE counts[k]]

promiseIsNullish_Always(obj, key) == TRUE

\* promises[key] is null or undefined (the test of `??=`)
promiseIsNullish(obj, key) == ~ObjectHas(obj, key)

RECURSIVE startFetches(_, _, _)
\* the loop of getFileFromSources from source k on; acc = [promises, fetches]
startFetches(sources, k, acc) ==
    IF k > Len(sources)
    THEN acc
    ELSE LET src == sources[k]
             key == sourceKey(src)
         IN startFetches(sources, k + 1,
                IF promiseIsNullish(acc.promises, key)
                THEN [promises |-> ObjectSet(acc.promises, key,
                                             [state |-> "pending", source |-> src]),
                      fetches |-> Increment(acc.fetches, key)]
                ELSE acc)

\* utils.objectFromKeysAndValues
objectFromKeysAndValues(keys, values) ==
    LET RECURSIVE assign(_, _)
        assign(k, obj) == IF k > Len(keys) THEN obj
                          ELSE assign(k + 1, ObjectSet(obj, keys[k], values[k]))
    IN assign(1, EmptyObject)

\* the result of promiseAllObj(promisesObj) once every promise is fulfilled
promiseAllObj(promisesObj) ==
    LET keys == promisesObj.order
        results == [k \in 1..Len(keys) |-> promisesObj.of[keys[k]].value]
    IN objectFromKeysAndValues(keys, results)

\* the files in the order of the keys of the promises, one per key
filesOfSources_PerKey(sources, fileOfKey) ==
    [k \in 1..Len(fileOfKey.order) |->
        [defined |-> TRUE, file |-> fileOfKey.of[fileOfKey.order[k]]]]

\* sources.map(src => data[`${src.format}:${src.url}`])
filesOfSources(sources, fileOfKey) ==
    [k \in 1..Len(sources) |->
        IF ObjectHas(fileOfKey, sourceKey(sources[k]))
        THEN [defined |-> TRUE, file |-> fileOfKey.of[sourceKey(sources[k])]]
        ELSE [defined |-> FALSE]]

NotAsked == [called |-> FALSE]

\* ids that consumers ask for: ids of specs, an id no spec has, and the
\* name of a member of Object.prototype
QueryIds == {"a", "b", "c", "zz", "toString", "__proto__"}

\* the fields and methods of an Annotation instance
AnnotationMembers ==
    {"data", "schema", "indexedModels", "getAnnotationForLocation_Reference",
     "getValueForLocation", "getIndexedModel", "getRowForEachAtom", "getRows"}

\* this.dict[id]: the Annotation stored under id, the prototype of dict
\* (for the id __proto__), a member that dict inherits from its prototype
\* chain, or undefined
getAnnotation(id) ==
    IF ObjectHas(dict, id)
    THEN [kind |-> "annotation", value |-> dict.of[id]]
    ELSE IF id = "__proto__"
         THEN IF dict.proto = ObjectPrototype
              THEN [kind |-> "inherited", value |-> Inherited(id)]
              ELSE [kind |-> "annotation", value |-> dict.proto.value]
         ELSE IF id \in ObjectPrototypeKeys
                 \/ (dict.proto # ObjectPrototype /\ id \in AnnotationMembers)
              THEN [kind |-> "inherited", value |-> Inherited(id)]
              ELSE [kind |-> "undefined"]

\* Object.values(this.dict): the own properties of dict, in key order
getAllAnnotations ==
    LET keys == ObjectKeysInserted(dict.order)
    IN [k \in 1..Len(keys) |-> dict.of[keys[k]]]

LoadInit ==
    /\ specs \in {[k \in 1..Len(q) |-> SpecPool[q[k]]] :
                    q \in SeqsUpTo(1..Len(SpecPool), MaxSpecs)}
    /\ promises = EmptyObject
    /\ fetches = << >>
    /\ pc = "start"
    /\ iSpec = 0
    /\ files = << >>
    /\ dict = EmptyObject
    /\ made = << >>
    /\ failure = undefined
    /\ got = NotAsked

\* Annotations.fromSpecs is called: getFileFromSources starts the fetch of
\* every source that has no promise yet, then awaits them all
StartFromSpecs ==
    /\ pc = "start"
    /\ LET started == startFetches(specs, 1, [promises |-> promises, fetches |-> fetches])
       IN /\ promises' = started.promises
          /\ fetches' = started.fetches
    /\ pc' = IF Len(specs) = 0 THEN "resolved" ELSE "awaitFiles"
    /\ UNCHANGED <<specs, iSpec, files, dict, made, failure, got>>

\* the fetch of one source ends, with the files awaited as by
\* Promise.allSettled: a rejected source only leaves its specs without file
SettleFetch_AllSettled(key) ==
    /\ pc # "start"
    /\ ObjectHas(promises, key)
    /\ promises.of[key].state = "pending"
    /\ LET outcome == getFileFromSource(promises.of[key].source)
           settled == ObjectSet(promises, key, outcome)
           fulfilled == {k \in DOMAIN settled.of : settled.of[k].state = "fulfilled"}
           kept == [order |-> SelectSeq(settled.order, LAMBDA k : k \in fulfilled),
                    of |-> [k \in fulfilled |-> settled.of[k]],
                    proto |-> ObjectPrototype]
       IN /\ promises' = settled
          /\ IF pc = "awaitFiles"
                 /\ \A k \in DOMAIN settled.of : settled.of[k].state # "pending"
             THEN /\ pc' = "loop"
                  /\ files' = filesOfSources(specs, promiseAllObj(kept))
             ELSE UNCHANGED <<pc, files>>
    /\ UNCHANGED <<specs, fetches, iSpec, dict, made, failure, got>>

\* the fetch and parse of one source ends; when fromSpecs awaits the files,
\* a rejection rejects it and the last fulfilment resumes it
SettleFetch(key) ==
    /\ pc # "start"
    /\ ObjectHas(promises, key)
    /\ promises.of[key].state = "pending"
    /\ LET outcome == getFileFromSource(promises.of[key].source)
           settled == ObjectSet(promises, key, outcome)
       IN /\ promises' = settled
          /\ IF pc # "awaitFiles"
             THEN UNCHANGED <<pc, files, failure>>
             ELSE IF outcome.state = "rejected"
                  THEN /\ pc' = "rejected"
                       /\ failure' = outcome.reason
                       /\ UNCHANGED files
                  ELSE IF \A k \in DOMAIN settled.of : settled.of[k].state = "fulfilled"
                       THEN /\ pc' = "loop"
                            /\ files' = filesOfSources(specs, promiseAllObj(settled))
                            /\ UNCHANGED failure
                       ELSE UNCHANGED <<pc, files, failure>>
    /\ UNCHANGED <<specs, fetches, iSpec, dict, made, got>>

\* annotations.getAnnotation(id) on the Annotations that fromSpecs resolved to
GetAnnotation(id) ==
    /\ pc = "resolved"
    /\ got' = [called |-> TRUE, method |-> "getAnnotation", id |-> id,
                result |-> getAnnotation(id)]
    /\ UNCHANGED <<specs, promises, fetches, pc, iSpec, files, dict, made, failure>>

\* annotations.getAllAnnotations() on the Annotations that fromSpecs resolved to
GetAllAnnotations ==
    /\ pc = "resolved"
    /\ got' = [called |-> TRUE, method |-> "getAllAnnotations", id |-> "",
                result |-> [kind |-> "all", value |-> getAllAnnotations]]
    /\ UNCHANGED <<specs, promises, fetches, pc, iSpec, files, dict, made, failure>>

\* the iteration with the error of fromSpec caught: the spec is left out and
\* the loop goes on
FromSpecStep_SkipFailed ==
    /\ pc = "loop"
    /\ iSpec < Len(specs)
    /\ LET spec == specs[iSpec + 1]
           outcome == fromSpec(spec, files[iSpec + 1].file)
       IN /\ made' = Append(made, outcome)
          /\ dict' = IF outcome.threw THEN dict ELSE ObjectSet(dict, spec.id, outcome.value)
          /\ iSpec' = iSpec + 1
          /\ pc' = IF iSpec + 1 = Len(specs) THEN "resolved" ELSE "loop"
    /\ UNCHANGED <<specs, promises, fetches, files, failure, got>>

\* one iteration of the loop of fromSpecs:
\* dict[spec.id] = await Annotation.fromSpec(ctx, spec, data[i])
FromSpecStep ==
    /\ pc = "loop"
    /\ iSpec < Len(specs)
    /\ LET spec == specs[iSpec + 1]
           given == files[iSpec + 1]
           \* file ??= await getFileFromSource(ctx, spec)
           fetched == IF given.defined
                      THEN Fulfilled(given.file)
                      ELSE getFileFromSource(spec)
           outcome == IF fetched.state = "rejected"
                      THEN Thrown(fetched.reason)
                      ELSE fromSpec(spec, fetched.value)
       IN /\ fetches' = IF given.defined THEN fetches ELSE Increment(fetches, sourceKey(spec))
          /\ made' = Append(made, outcome)
          /\ IF outcome.threw
             THEN /\ pc' = "rejected"
                  /\ failure' = outcome.error
                  /\ UNCHANGED <<dict, iSpec>>
             ELSE /\ dict' = ObjectSet(dict, spec.id, outcome.value)
                  /\ iSpec' = iSpec + 1
                  /\ pc' = IF iSpec + 1 = Len(specs) THEN "resolved" ELSE "loop"
                  /\ UNCHANGED failure
    /\ UNCHANGED <<specs, promises, files, got>>

(***************************************************************************)
(* Parsing the rows of a JSON object-of-arrays payload on its own.         *)
(***************************************************************************)
VARIABLES
    rowsResult  \* what getRowsFromJson(data.data, schema) gave, once it was called

NotCalled == [called |-> FALSE]

ColumnPool ==
    [label_asym_id |-> <<"A", "B", "A">>, label_seq_id |-> <<15, 15, 12>>,
     color |-> <<"red", "blue", "green">>]

\* every payload whose columns are prefixes (of length at most MaxColumn)
\* of the columns of ColumnPool; length -1 stands for an absent column
JsonObjectPayloads ==
    {JsonObject([key \in {k \in DOMAIN ColumnPool : len[k] >= 0} |->
                    SubSeq(ColumnPool[key], 1, len[key])]) :
        len \in [DOMAIN ColumnPool -> -1..MaxColumn]}

ParseRows ==
    /\ ~rowsResult.called
    /\ rowsResult' = [called |-> TRUE, result |-> getRowsFromJson(data.data, schema)]
    /\ UNCHANGED <<schema, data, indexedModels, built, queried, last>>

(***************************************************************************)
(* AnnotationColorTheme (cif-color-extension/color.ts).                    *)
(***************************************************************************)
VARIABLES
    ctx,        \* ThemeDataContext: the structure, its first model's property
    props,      \* the params of the theme: background, url
    theme,      \* the outcome of AnnotationColorTheme(ctx, props)
    painted     \* the last call of the theme's color function and its result

themeVars == <<ctx, props, theme, painted>>

\* the value of the annotations property: undefined, or the annotations it
\* holds, by url
NoValue == [defined |-> FALSE, urls |-> {}]
ValueOf(urls) == [defined |-> TRUE, urls |-> urls]

\* ctx.structure is undefined, is empty (no unit, no model), or has models;
\* hasProperty: models[0].customProperties.has(AnnotationsProvider.descriptor)
ThemeDataContext(structure, nModels, hasProperty, value) ==
    [structure |-> structure, nModels |-> nModels, hasProperty |-> hasProperty, value |-> value]

ThemeContexts ==
    {ThemeDataContext("absent", 0, FALSE, NoValue),
     ThemeDataContext("empty", 0, FALSE, NoValue),
     ThemeDataContext("present", 1, FALSE, NoValue),
     ThemeDataContext("present", 1, TRUE, NoValue),
     ThemeDataContext("present", 1, TRUE, ValueOf({})),
     ThemeDataContext("present", 1, TRUE, ValueOf({"u1"})),
     ThemeDataContext("present", 2, TRUE, ValueOf({"u1", "u2"}))}

ThemeProps == [background : {"gainsboro", "white"}, url : {"", "u1", "u2"}]

\* locations the color function is called with
Locations ==
    {[kind |-> "element", element |-> e] : e \in 0..2}
        \cup {[kind |-> "bond", element |-> 0], [kind |-> "other", element |-> 0]}

\* annot.colorForLocation(location, format) of the annotation of a url: the
\* color of the row that applies to the atom, or undefined
colorForLocation(url, location) ==
    CASE url = "u1" /\ location.element = 0 -> "red"
      [] url = "u2" /\ location.element \in {0, 1} -> "blue"
      [] OTHER -> undefined

NoTheme == [built |-> FALSE]
Theme(threw, annot, logged) ==
    [built |-> TRUE, threw |-> threw, annot |-> annot, logged |-> logged]

\* the theme with the structure tested for presence only
AnnotationColorTheme_NoEmptyTest(c, p) ==
    IF c.structure # "absent"
    THEN IF c.nModels = 0
         THEN Theme(TRUE, undefined, << >>)   \* models[0] is undefined: TypeError
         ELSE IF c.hasProperty /\ c.value.defined /\ p.url \in c.value.urls
              THEN Theme(FALSE, p.url, << >>)
              ELSE Theme(FALSE, undefined, << >>)
    ELSE Theme(FALSE, undefined, << >>)

\* AnnotationColorTheme(ctx, props): annot names the annotation that the
\* color function uses (undefined: the function is () => props.background),
\* logged lists the console.error calls
AnnotationColorTheme(c, p) ==
    IF c.structure # "absent" /\ c.structure # "empty" /\ c.hasProperty
    THEN \* annots?.[props.url]
         IF c.value.defined /\ p.url \in c.value.urls
         THEN Theme(FALSE, p.url, << >>)
         ELSE Theme(FALSE, undefined, <<"Annotation source not present">>)
    ELSE Theme(FALSE, undefined, << >>)

\* theme.color(location)
color(t, p, location) ==
    IF t.annot = undefined
    THEN p.background
    ELSE IF location.kind = "element"
         THEN LET c == colorForLocation(t.annot, location)
              IN IF c = undefined THEN p.background ELSE c
         ELSE p.background

NotPainted == [called |-> FALSE]

ThemeInit ==
    /\ ctx \in ThemeContexts
    /\ props \in ThemeProps
    /\ theme = NoTheme
    /\ painted = NotPainted

ConstructTheme ==
    /\ ~theme.built
    /\ theme' = AnnotationColorTheme(ctx, props)
    /\ UNCHANGED <<ctx, props, painted>>

PaintLocation(location) ==
    /\ theme.built
    /\ ~theme.threw
    /\ painted' = [called |-> TRUE, location |-> location,
                   color |-> color(theme, props, location)]
    /\ UNCHANGED <<ctx, props, theme>>

(***************************************************************************)
(* Two Annotation instances.  Every instance has its own indexedModels     *)
(* (a field initialised per instance); a consumer that holds two of them   *)
(* queries now one, now the other.  schema, data, indexedModels, built and *)
(* queried are the fields of the instance being queried, peer holds those  *)
(* of the other one.                                                       *)
(***************************************************************************)
VARIABLES
    peer           \* the other Annotation: its number and its fields

AnnotationRec(instance, s, d, cache, b, q) ==
    [instance |-> instance, schema |-> s, data |-> d, indexedModels |-> cache,
     built |-> b, queried |-> q]

\* the number of the Annotation being queried
This == 3 - peer.instance

\* the schemas and payloads of the pair
PairSchemas == {"chain", "all-atomic"}
PairData == {JsonArray(<<RowPool[1], RowPool[3]>>), CifData(CategoryAnnot)}

\* new Annotation(data, schema), twice
PairInit ==
    /\ schema \in PairSchemas
    /\ data \in PairData
    /\ indexedModels = << >>
    /\ built = [m \in ModelIds |-> 0]
    /\ queried = {}
    /\ last = NoCall
    /\ peer \in {AnnotationRec(2, s, d, << >>, [m \in ModelIds |-> 0], {}) :
                    s \in PairSchemas, d \in PairData}

\* the consumer turns to the other Annotation
OtherAnnotation ==
    /\ peer' = AnnotationRec(This, schema, data, indexedModels, built, queried)
    /\ schema' = peer.schema
    /\ data' = peer.data
    /\ indexedModels' = peer.indexedModels
    /\ built' = peer.built
    /\ queried' = peer.queried
    /\ last' = NoCall

(***************************************************************************)
(* Tasks.  Cooperatively scheduled tasks query one Annotation: a task runs *)
(* from one await to the next, and getValueForLocation, getIndexedModel    *)
(* and getRowForEachAtom hold no await, so a call is one step of its task. *)
(***************************************************************************)
VARIABLES
    tasks          \* of each task: where it is, and the array it read last

TaskIds == {1, 2}
NoRead == [kind |-> "none"]
TaskReady == [pc |-> "ready", read |-> NoRead]

TasksInit == tasks = [t \in TaskIds |-> TaskReady]

\* task t calls getValueForLocation and then suspends at its next await
TaskQuery(t) ==
    /\ tasks[t].pc = "ready"
    /\ GetValueForLocation
    /\ tasks' = [tasks EXCEPT ![t] =
                    [pc |-> "suspended",
                     read |-> IF last'.threw
                              THEN [kind |-> "threw"]
                              ELSE [kind |-> "array", model |-> last'.model,
                                    arr |-> indexedModels'[last'.model].arr]]]

\* the await of task t returns
TaskResume(t) ==
    /\ tasks[t].pc = "suspended"
    /\ tasks' = [tasks EXCEPT ![t] = TaskReady]
    /\ UNCHANGED annotVars

(***************************************************************************)
(* Trees (part_001: loadTree, makeNearestReprMap).  A tree is given by the *)
(* parent and the kind of its nodes 1..n, node 1 being the root (parent    *)
(* 0); the children of a node are ordered by their number.  A node is its  *)
(* number, as the Maps of the code are keyed by node identity.             *)
(***************************************************************************)
\* the greatest number of nodes of a tree
MaxNodes == 5

\* the kinds a child of a node of each kind can have
ChildKinds ==
    [kind \in {"root", "structure", "component", "component_from_uri", "representation",
               "label_from_uri", "color", "color_from_uri"} |->
        CASE kind = "root" -> {"structure"}
          [] kind = "structure" -> {"component", "component_from_uri"}
          [] kind \in {"component", "component_from_uri"} -> {"representation", "label_from_uri"}
          [] kind = "representation" -> {"color", "color_from_uri"}
          [] OTHER -> {}]
NodeKinds == DOMAIN ChildKinds

RECURSIVE TreesOfSize(_)
TreesOfSize(n) ==
    IF n = 1
    THEN {[par |-> <<0>>, kind |-> <<"root">>]}
    ELSE UNION {{[par |-> Append(t.par, parent), kind |-> Append(t.kind, kind)] :
                    kind \in ChildKinds[t.kind[parent]]} :
                <<t, parent>> \in TreesOfSize(n - 1) \X (1..(n - 1))}

\* the trees of at most MaxNodes nodes; every child has a kind that its
\* parent can have below it
TreePool == UNION {TreesOfSize(n) : n \in 1..MaxNodes}

Nodes(t) == 1..Len(t.par)
getChildren(t, node) == SortSet({i \in Nodes(t) : t.par[i] = node})

RECURSIVE dfsOrder(_, _, _)
\* the calls of the callbacks of dfs(root, visit, postVisit) below and at
\* node, in order: visit(node, parent), the subtrees of the children, then
\* postVisit(node, parent)
dfsOrder(t, node, k) ==
    LET children == getChildren(t, node)
    IN IF k = 0
       THEN <<[call |-> "visit", node |-> node]>> \o dfsOrder(t, node, 1)
       ELSE IF k <= Len(children)
            THEN dfsOrder(t, children[k], 0) \o dfsOrder(t, node, k + 1)
            ELSE <<[call |-> "postVisit", node |-> node]>>

\* the nodes in the order in which dfs calls visit, and postVisit, on them
Visited(t, call) ==
    LET calls == SelectSeq(dfsOrder(t, 1, 0), LAMBDA c : c.call = call)
    IN [k \in 1..Len(calls) |-> calls[k].node]

\* map.set(key, value)
MapSet(map, key, value) ==
    [k \in (DOMAIN map) \cup {key} |-> IF k = key THEN value ELSE map[k]]

\* the postVisit callback of `Propagate up`
propagateUp(t, map, node) ==
    LET set == IF t.kind[node] = "representation" THEN MapSet(map, node, node) ELSE map
        parent == t.par[node]
    IN IF t.kind[node] # "structure" /\ node \in DOMAIN set
          /\ parent # 0 /\ parent \notin DOMAIN set
       THEN MapSet(set, parent, set[node])
       ELSE set

\* the visit callback of `Propagate down`
propagateDown(t, map, node) ==
    IF t.par[node] # 0 /\ t.par[node] \in DOMAIN map
    THEN MapSet(map, node, map[t.par[node]])
    ELSE map

RECURSIVE forEachNode(_, _, _, _, _)
\* the callback of one pass ("up" or "down") applied to the nodes of the
\* sequence from the k-th on
forEachNode(pass, t, order, k, map) ==
    IF k > Len(order)
    THEN map
    ELSE forEachNode(pass, t, order, k + 1,
                     IF pass = "up"
                     THEN propagateUp(t, map, order[k])
                     ELSE propagateDown(t, map, order[k]))

makeNearestReprMap(t) ==
    LET up == forEachNode("up", t, Visited(t, "postVisit"), 1, << >>)
    IN forEachNode("down", t, Visited(t, "visit"), 1, up)

\* StateObjectSelectors: that of the root of the state, and the one that
\* the loading action of a node returns; NoSelector stands for undefined
Selector(ref) == [defined |-> TRUE, ref |-> ref]
NoSelector == [defined |-> FALSE]
msRoot == Selector(0)

\* what loadTree does to the outside, in order: update.delete(child), a
\* loading action called for a node with a target, console.warn for a node,
\* update.commit()
Event(event, node, target) == [event |-> event, node |-> node, target |-> target]

\* mapping.get(parent)
MapGet(map, key) == IF key \in DOMAIN map THEN map[key] ELSE NoSelector

\* action(update, msTarget, node, context): the selector of the state node
\* that the loading action of this node creates, or undefined
action(t, loadingActions, node) ==
    IF t.kind[node] \in loadingActions.returnUndefined THEN NoSelector ELSE Selector(node)

\* the callback with the root selector as the target of a node whose parent
\* has no selector
loadTreeVisit_RootFallback(t, loadingActions, state, node) ==
    IF t.kind[node] \in loadingActions.kinds
    THEN LET found == IF t.par[node] # 0 THEN MapGet(state.mapping, t.par[node]) ELSE msRoot
             msTarget == IF found.defined THEN found ELSE msRoot
             msNode == action(t, loadingActions, node)
         IN [mapping |-> MapSet(state.mapping, node, msNode),
             log |-> Append(state.log, Event("action", node, msTarget))]
    ELSE state

\* the callback that loadTree hands to dfs; state = [mapping, log]
loadTreeVisit(t, loadingActions, state, node) ==
    IF t.kind[node] \in loadingActions.kinds
    THEN LET msTarget == IF t.par[node] # 0 THEN MapGet(state.mapping, t.par[node]) ELSE msRoot
         IN IF msTarget.defined
            THEN LET msNode == action(t, loadingActions, node)
                 IN [mapping |-> MapSet(state.mapping, node, msNode),
                     log |-> Append(state.log, Event("action", node, msTarget))]
            ELSE [mapping |-> state.mapping,
                  log |-> Append(state.log, Event("warn", node, NoSelector))]
    ELSE state

RECURSIVE loadTreeLoop(_, _, _, _, _)
loadTreeLoop(t, loadingActions, order, k, state) ==
    IF k > Len(order)
    THEN state
    ELSE loadTreeLoop(t, loadingActions, order, k + 1,
                      loadTreeVisit(t, loadingActions, state, order[k]))

\* loadTree(plugin, tree, loadingActions, context, deletePrevious), with
\* `previous` children below the root of the state: what it does, in order
loadTree(t, loadingActions, previous, deletePrevious) ==
    LET deleted == IF deletePrevious
                   THEN [child \in 1..previous |-> Event("delete", child, NoSelector)]
                   ELSE << >>
        visited == loadTreeLoop(t, loadingActions, Visited(t, "visit"), 1,
                                [mapping |-> << >>, log |-> deleted])
    IN Append(visited.log, Event("commit", 0, NoSelector))

VARIABLES
    tree,          \* the tree handed to makeNearestReprMap and loadTree
    reprMap,       \* the Map that makeNearestReprMap returned
    loading,       \* the other arguments of loadTree
    log            \* what the loadTree call did, in order

treeVars == <<tree, reprMap, loading, log>>

NotMade == [made |-> FALSE]
NotLoaded == [loaded |-> FALSE]

\* the loading actions: the kinds that have one, and the kinds whose action
\* returns undefined
LoadingActionsPool ==
    {[kinds |-> kinds, returnUndefined |-> none] :
        kinds \in {NodeKinds, NodeKinds \ {"component"}, NodeKinds \ {"root"}},
        none \in {{}, {"structure"}, {"representation", "component_from_uri"}}}

TreeInit ==
    /\ tree \in TreePool
    /\ reprMap = NotMade
    /\ loading \in [loadingActions : LoadingActionsPool, previous : {0, 2},
                     deletePrevious : BOOLEAN]
    /\ log = NotLoaded

MakeNearestReprMap ==
    /\ reprMap = NotMade
    /\ reprMap' = [made |-> TRUE, map |-> makeNearestReprMap(tree)]
    /\ UNCHANGED <<tree, loading, log>>

LoadTree ==
    /\ log = NotLoaded
    /\ log' = [loaded |-> TRUE,
                events |-> loadTree(tree, loading.loadingActions, loading.previous,
                                    loading.deletePrevious)]
    /\ UNCHANGED <<tree, reprMap, loading>>

(***************************************************************************)
(* Parameter validation (mvs-extension/tree/generic/params-schema.ts).     *)
(***************************************************************************)
\* the greatest number of own keys of a schema or of a values object
MaxParams == 2

\* JavaScript values, by what the io-ts types test: the typeof tag, and for
\* numbers whether Number.isInteger holds
JsValue(tag, integer, text) == [tag |-> tag, integer |-> integer, text |-> text]
ParamValues ==
    {JsValue("string", FALSE, "\"x\""), JsValue("number", TRUE, "1"),
     JsValue("number", FALSE, "1.5"), JsValue("null", FALSE, "null"),
     JsValue("undefined", FALSE, "undefined")}

\* io-ts types: a name and the basic types one of which must accept the value
str == [name |-> "string", anyOf |-> {"string"}]
int == [name |-> "Integer", anyOf |-> {"Integer"}]
float == [name |-> "number", anyOf |-> {"number"}]
nullable(type) ==
    [name |-> "(" \o type.name \o " | null)", anyOf |-> type.anyOf \cup {"null"}]

is(basic, value) ==
    CASE basic = "string" -> value.tag = "string"
      [] basic = "Integer" -> value.tag = "number" /\ value.integer
      [] basic = "number" -> value.tag = "number"
      [] basic = "null" -> value.tag = "null"

decode(type, value) ==
    IF \E basic \in type.anyOf : is(basic, value)
    THEN [tag |-> "Right", errors |-> << >>]
    ELSE [tag |-> "Left",
          errors |-> <<"Invalid value " \o value.text \o " supplied to : " \o type.name>>]

RequiredField(type) == [type |-> type, required |-> TRUE]
OptionalField(type) == [type |-> type, required |-> FALSE]

\* `undefined`, or a list of issues
NoIssues == [kind |-> "undefined", list |-> << >>]
Issues(list) == [kind |-> "issues", list |-> list]

fieldValidationIssues_Accepting(field, value) == NoIssues

fieldValidationIssues(field, value) ==
    LET validation == decode(field.type, value)
    IN IF validation.tag = "Right"
       THEN NoIssues
       ELSE Issues(validation.errors)

\* objects as the sequence of their own enumerable properties, in the order
\* in which `for ... in` visits them
hasOwn(obj, key) == \E i \in 1..Len(obj) : obj[i].key = key
OwnValue(obj, key) == obj[CHOOSE i \in 1..Len(obj) : obj[i].key = key].value
OwnKeys(obj) == {obj[i].key : i \in 1..Len(obj)}

Indented(list) == [i \in 1..Len(list) |-> "  " \o list[i]]

\* the loop over the keys of the schema, from its i-th key on
RECURSIVE schemaLoop(_, _, _, _)
schemaLoop(paramsSchema, paramValues, opts, i) ==
    IF i > Len(paramsSchema)
    THEN NoIssues
    ELSE LET key == paramsSchema[i].key
             paramDef == paramsSchema[i].value
         IN IF hasOwn(paramValues, key)
            THEN LET found == fieldValidationIssues(paramDef, OwnValue(paramValues, key))
                 IN IF found.kind = "issues"
                    THEN Issues(<<"Invalid type for parameter \"" \o key \o "\":">>
                                \o Indented(found.list))
                    ELSE schemaLoop(paramsSchema, paramValues, opts, i + 1)
            ELSE IF paramDef.required
                 THEN Issues(<<"Missing required parameter \"" \o key \o "\".">>)
                 ELSE IF opts.requireAll
                      THEN Issues(<<"Missing optional parameter \"" \o key \o "\".">>)
                      ELSE schemaLoop(paramsSchema, paramValues, opts, i + 1)

\* the loop over the keys of the values, from its i-th key on
RECURSIVE extraLoop(_, _, _)
extraLoop(paramsSchema, paramValues, i) ==
    IF i > Len(paramValues)
    THEN NoIssues
    ELSE IF ~hasOwn(paramsSchema, paramValues[i].key)
         THEN Issues(<<"Unknown parameter \"" \o paramValues[i].key \o "\".">>)
         ELSE extraLoop(paramsSchema, paramValues, i + 1)

paramsValidationIssues(paramsSchema, paramValues, opts) ==
    LET found == schemaLoop(paramsSchema, paramValues, opts, 1)
    IN IF found.kind = "issues"
       THEN found
       ELSE IF opts.noExtra
            THEN extraLoop(paramsSchema, paramValues, 1)
            ELSE NoIssues

VARIABLES
    params,        \* the ParamsSchema handed to paramsValidationIssues
    values,        \* the values object handed to it
    options,       \* its options, an absent option being false
    issues         \* what the call returned

paramsVars == <<params, values, options, issues>>

Property(key, value) == [key |-> key, value |-> value]

\* the objects whose own properties are drawn from `properties`, at most
\* MaxParams of them and no key twice, in every order of insertion
ObjectsOf(properties) ==
    {obj \in SeqsUpTo(properties, MaxParams) :
        \A i, j \in 1..Len(obj) : obj[i].key = obj[j].key => i = j}

ParamFields == {RequiredField(str), OptionalField(int), OptionalField(nullable(float))}
ParamsSchemas == ObjectsOf({Property(key, field) : key \in {"a", "b"}, field \in ParamFields})
ParamsObjects == ObjectsOf({Property(key, value) : key \in {"a", "b", "x"}, value \in ParamValues})
ParamsOptions == [requireAll : BOOLEAN, noExtra : BOOLEAN]

NotValidated == [kind |-> "none", list |-> << >>]

ParamsInit ==
    /\ params \in ParamsSchemas
    /\ values \in ParamsObjects
    /\ options \in ParamsOptions
    /\ issues = NotValidated

Validate ==
    /\ issues = NotValidated
    /\ issues' = paramsValidationIssues(params, values, options)
    /\ UNCHANGED <<params, values, options>>

(***************************************************************************)
(* Specifications.                                                         *)
(***************************************************************************)
vars == <<schema, data, indexedModels, built, queried, last, rowsResult,
          specs, promises, fetches, pc, iSpec, files, dict, made, failure, got,
          ctx, props, theme, painted, params, values, options, issues, peer, tasks, tree, reprMap, loading, log>>

\* no load is in progress
LoadIdle ==
    /\ specs = << >>
    /\ promises = EmptyObject
    /\ fetches = << >>
    /\ pc = "idle"
    /\ iSpec = 0
    /\ files = << >>
    /\ dict = EmptyObject
    /\ made = << >>
    /\ failure = undefined
    /\ got = NotAsked

\* no Annotation is being queried
AnnotIdle ==
    /\ schema = "whole-structure"
    /\ data = JsonArray(<< >>)
    /\ indexedModels = << >>
    /\ built = [m \in ModelIds |-> 0]
    /\ queried = {}
    /\ last = NoCall

\* no theme is under construction
ThemeIdle ==
    /\ ctx = ThemeDataContext("absent", 0, FALSE, NoValue)
    /\ props = [background |-> "gainsboro", url |-> ""]
    /\ theme = NoTheme
    /\ painted = NotPainted

\* no parameters are being validated
ParamsIdle ==
    /\ params = << >>
    /\ values = << >>
    /\ options = [requireAll |-> FALSE, noExtra |-> FALSE]
    /\ issues = NotValidated

\* no tree is being loaded
TreeIdle ==
    /\ tree = [par |-> <<0>>, kind |-> <<"root">>]
    /\ reprMap = NotMade
    /\ loading = [loadingActions |-> [kinds |-> {}, returnUndefined |-> {}], previous |-> 0,
                  deletePrevious |-> FALSE]
    /\ log = NotLoaded

\* no task is under way
TasksIdle == TasksInit

\* there is no second Annotation
NoPeer == AnnotationRec(2, "whole-structure", JsonArray(<< >>), << >>, [m \in ModelIds |-> 0], {})
PeerIdle == peer = NoPeer

\* an Annotation, queried by its consumers
Init ==
    /\ AnnotInit
    /\ rowsResult = NotCalled
    /\ LoadIdle
    /\ ThemeIdle
    /\ ParamsIdle
    /\ PeerIdle
    /\ TasksIdle
    /\ TreeIdle

Next ==
    /\ GetValueForLocation
    /\ UNCHANGED <<rowsResult, loadVars, themeVars, paramsVars, peer, tasks, treeVars>>

Spec == Init /\ [][Next]_vars

\* one call of Annotations.fromSpecs
InitLoad ==
    /\ LoadInit
    /\ rowsResult = NotCalled
    /\ AnnotIdle
    /\ ThemeIdle
    /\ ParamsIdle
    /\ PeerIdle
    /\ TasksIdle
    /\ TreeIdle

NextLoad ==
    \/ StartFromSpecs /\ UNCHANGED <<annotVars, rowsResult, themeVars, paramsVars, peer, tasks, treeVars>>
    \/ \E key \in DOMAIN promises.of :
          SettleFetch(key) /\ UNCHANGED <<annotVars, rowsResult, themeVars, paramsVars, peer, tasks, treeVars>>
    \/ FromSpecStep /\ UNCHANGED <<annotVars, rowsResult, themeVars, paramsVars, peer, tasks, treeVars>>
    \/ \E id \in QueryIds :
          GetAnnotation(id) /\ UNCHANGED <<annotVars, rowsResult, themeVars, paramsVars, peer, tasks, treeVars>>
    \/ GetAllAnnotations /\ UNCHANGED <<annotVars, rowsResult, themeVars, paramsVars, peer, tasks, treeVars>>

SpecLoad == InitLoad /\ [][NextLoad]_vars

\* getRowsFromJson applied to an object-of-arrays payload
InitJson ==
    /\ schema \in SchemaT
    /\ data \in JsonObjectPayloads
    /\ indexedModels = << >>
    /\ built = [m \in ModelIds |-> 0]
    /\ queried = {}
    /\ last = NoCall
    /\ rowsResult = NotCalled
    /\ LoadIdle
    /\ ThemeIdle
    /\ ParamsIdle
    /\ PeerIdle
    /\ TasksIdle
    /\ TreeIdle

NextJson ==
    /\ ParseRows
    /\ UNCHANGED <<loadVars, themeVars, paramsVars, peer, tasks, treeVars>>

SpecJson == InitJson /\ [][NextJson]_vars

\* one color theme, constructed and asked for colors
InitTheme ==
    /\ ThemeInit
    /\ AnnotIdle
    /\ rowsResult = NotCalled
    /\ LoadIdle
    /\ ParamsIdle
    /\ PeerIdle
    /\ TasksIdle
    /\ TreeIdle

NextTheme ==
    \/ ConstructTheme /\ UNCHANGED <<annotVars, rowsResult, loadVars, paramsVars, peer, tasks, treeVars>>
    \/ \E location \in Locations :
          PaintLocation(location) /\ UNCHANGED <<annotVars, rowsResult, loadVars, paramsVars, peer, tasks, treeVars>>

SpecTheme == InitTheme /\ [][NextTheme]_vars

\* two Annotations, queried in any order
InitPair ==
    /\ PairInit
    /\ rowsResult = NotCalled
    /\ LoadIdle
    /\ ThemeIdle
    /\ ParamsIdle
    /\ TasksIdle
    /\ TreeIdle

NextPair ==
    \/ GetValueForLocation /\ UNCHANGED <<rowsResult, loadVars, themeVars, paramsVars, peer, tasks, treeVars>>
    \/ OtherAnnotation /\ UNCHANGED <<rowsResult, loadVars, themeVars, paramsVars, tasks, treeVars>>

SpecPair == InitPair /\ [][NextPair]_vars

\* one Annotation, queried by two tasks
InitTasks ==
    /\ AnnotInit
    /\ schema \in PairSchemas
    /\ data \in PairData
    /\ TasksInit
    /\ rowsResult = NotCalled
    /\ LoadIdle
    /\ ThemeIdle
    /\ ParamsIdle
    /\ PeerIdle
    /\ TreeIdle

NextTasks ==
    \/ \E t \in TaskIds :
          TaskQuery(t) /\ UNCHANGED <<rowsResult, loadVars, themeVars, paramsVars, peer, treeVars>>
    \/ \E t \in TaskIds :
          TaskResume(t) /\ UNCHANGED <<rowsResult, loadVars, themeVars, paramsVars, peer, treeVars>>

SpecTasks == InitTasks /\ [][NextTasks]_vars

\* a tree, handed to makeNearestReprMap and to loadTree
InitTree ==
    /\ TreeInit
    /\ AnnotIdle
    /\ rowsResult = NotCalled
    /\ LoadIdle
    /\ ThemeIdle
    /\ ParamsIdle
    /\ PeerIdle
    /\ TasksIdle

NextTree ==
    \/ MakeNearestReprMap
          /\ UNCHANGED <<annotVars, rowsResult, loadVars, themeVars, paramsVars, peer, tasks>>
    \/ LoadTree
          /\ UNCHANGED <<annotVars, rowsResult, loadVars, themeVars, paramsVars, peer, tasks>>

SpecTree == InitTree /\ [][NextTree]_vars

\* one call of paramsValidationIssues
InitParams ==
    /\ ParamsInit
    /\ AnnotIdle
    /\ rowsResult = NotCalled
    /\ LoadIdle
    /\ ThemeIdle
    /\ PeerIdle
    /\ TasksIdle
    /\ TreeIdle

NextParams ==
    /\ Validate
    /\ UNCHANGED <<annotVars, rowsResult, loadVars, themeVars, peer, tasks, treeVars>>

SpecParams == InitParams /\ [][NextParams]_vars

(***************************************************************************)
(* Properties of row resolution (specification Spec).                      *)
(***************************************************************************)
\* the row list of the Annotation
Rows == getRows(data, schema).rows
RowIndices == 0..(Len(Rows) - 1)

\* the atoms covered by a sequence of half-open ranges
Covered(model, atomRanges) ==
    {i \in AtomIndices(model) :
        \E k \in 1..Len(atomRanges) : atomRanges[k][1] <= i /\ i < atomRanges[k][2]}

\* the atoms of the model that row k of the Annotation is matched to
MatchedAtoms(model, k) ==
    Covered(model, getAtomRangesForRow(model, Rows[k + 1], createIndicesAndSortings(model)))

\* C1: for every model whose resolution array was built, the entry of every
\* atom i names the row that the brute-force reference resolver returns for
\* atom i (the last row of the list that atomQualifies accepts), -1 standing
\* for `undefined`.
IndexedEqualsReference ==
    \A key \in DOMAIN indexedModels :
        LET model == ModelById(key)
            arr == indexedModels[key].arr
        IN /\ Len(arr) = nAtoms(model)
           /\ \A i \in AtomIndices(model) :
                 arr[i + 1] = getAnnotationForLocation_Reference(model, i, Rows)

\* a built array with an atom that no row matches and an atom that two rows
\* qualify for, resolved to the later of the two
IndexedEqualsReferenceWitness ==
    \E key \in DOMAIN indexedModels :
        LET model == ModelById(key)
            arr == indexedModels[key].arr
        IN /\ \E i \in AtomIndices(model) : arr[i + 1] = -1
           /\ \E i \in AtomIndices(model) :
                 /\ arr[i + 1] = 1
                 /\ atomQualifies(model, i, Rows[1])
                 /\ atomQualifies(model, i, Rows[2])

\* C2: last match wins: when the ranges of two or more rows cover the same
\* atom, the entry of that atom is the greatest index among those rows.
LastMatchWins ==
    \A key \in DOMAIN indexedModels :
        LET model == ModelById(key)
            arr == indexedModels[key].arr
        IN \A cover \in {UNION {{<<k, i>> : i \in MatchedAtoms(model, k)} : k \in RowIndices}} :
              \A i \in AtomIndices(model) :
                 LET matching == {k \in RowIndices : <<k, i>> \in cover}
                 IN Cardinality(matching) >= 2 => arr[i + 1] = Max(matching)

\* two rows whose matched atoms overlap only partly, the atom in the overlap
\* being resolved to the later row
LastMatchWinsWitness ==
    \E key \in DOMAIN indexedModels :
        LET model == ModelById(key)
            arr == indexedModels[key].arr
        IN /\ Len(Rows) = 2
           /\ MatchedAtoms(model, 0) \ MatchedAtoms(model, 1) # {}
           /\ MatchedAtoms(model, 1) \ MatchedAtoms(model, 0) # {}
           /\ \E i \in MatchedAtoms(model, 0) \cap MatchedAtoms(model, 1) : arr[i + 1] = 1

EndToEndSource == JsonArray(<<RowPool[1], RowPool[2]>>)
EndToEnd ==
    ( /\ schema = "residue-range"
      /\ data = EndToEndSource
      /\ last.called
      /\ last.fieldName = "color" ) =>
        /\ ~last.threw
        /\ LET a == atomAt(ModelById(last.model), last.element)
           IN a.label_asym_id = "A" =>
                 /\ a.label_seq_id = 15 => last.value = "blue"
                 /\ a.label_seq_id = 12 => last.value = "red"
                 /\ a.label_seq_id = 25 => last.value = undefined

\* the color of an atom of residue 15 of chain A was asked for
EndToEndWitness ==
    /\ schema = "residue-range"
    /\ data = EndToEndSource
    /\ last.called
    /\ last.fieldName = "color"
    /\ LET a == atomAt(ModelById(last.model), last.element)
       IN a.label_asym_id = "A" /\ a.label_seq_id = 15
    /\ last.value = "blue"

\* C9: under schema whole-structure every row is without selector fields
\* and matches every atom: when the row list is not empty, no entry of a
\* built array is -1 (each names the last row).
WholeStructureMatchesAll ==
    (schema = "whole-structure" /\ Len(Rows) > 0) =>
        \A key \in DOMAIN indexedModels :
            \A i \in AtomIndices(ModelById(key)) :
                /\ indexedModels[key].arr[i + 1] # -1
                /\ indexedModels[key].arr[i + 1] = Len(Rows) - 1

\* a built array under whole-structure whose rows carry selector fields in
\* the source
WholeStructureWitness ==
    /\ schema = "whole-structure"
    /\ data = EndToEndSource
    /\ "m1" \in DOMAIN indexedModels
    /\ \A i \in AtomIndices(Model1) : indexedModels["m1"].arr[i + 1] = 1

\* does the atom satisfy the constraint that field f with value v states
FieldHolds(f, v, a, iAtom) ==
    CASE f = "label_entity_id" -> a.label_entity_id = v
      [] f = "label_asym_id" -> a.label_asym_id = v
      [] f = "auth_asym_id" -> a.auth_asym_id = v
      [] f = "label_seq_id" -> a.label_seq_id = v
      [] f = "auth_seq_id" -> a.auth_seq_id = v
      [] f = "pdbx_PDB_ins_code" -> a.pdbx_PDB_ins_code = v
      [] f = "beg_label_seq_id" -> v <= a.label_seq_id
      [] f = "end_label_seq_id" -> a.label_seq_id <= v
      [] f = "beg_auth_seq_id" -> v <= a.auth_seq_id
      [] f = "end_auth_seq_id" -> a.auth_seq_id <= v
      [] f = "label_atom_id" -> a.label_atom_id = v
      [] f = "auth_atom_id" -> a.auth_atom_id = v
      [] f = "type_symbol" -> a.type_symbol = v
      [] f = "atom_id" -> a.atom_id = v
      [] f = "atom_index" -> iAtom = v

\* C10: under schema all-atomic a row matches exactly the atoms that satisfy
\* every field present in it: the entry of every atom is the last row all of
\* whose fields the atom satisfies, or -1 when there is none; so where the
\* last row has type_symbol "C" as its only field, the atoms resolved to it
\* are exactly the carbon atoms.
AllAtomicIsConjunction ==
    schema = "all-atomic" =>
        \A key \in DOMAIN indexedModels :
            LET model == ModelById(key)
                arr == indexedModels[key].arr
                satisfied(i) ==
                    {k \in RowIndices :
                        \A f \in DOMAIN Rows[k + 1] :
                            FieldHolds(f, Rows[k + 1][f], atomAt(model, i), i)}
            IN /\ \A i \in AtomIndices(model) : arr[i + 1] = Max({-1} \cup satisfied(i))
               /\ (Len(Rows) > 0 /\ DOMAIN Rows[Len(Rows)] = {"type_symbol"}
                      /\ Rows[Len(Rows)].type_symbol = "C") =>
                     \A i \in AtomIndices(model) :
                        arr[i + 1] = Len(Rows) - 1 <=> atomAt(model, i).type_symbol = "C"

\* an all-atomic array built for model m1 whose last row has only
\* type_symbol "C": the carbon atoms of both chains are resolved to it
AllAtomicWitness ==
    /\ schema = "all-atomic"
    /\ data = JsonArray(<<RowPool[1], RowPool[3]>>)
    /\ "m1" \in DOMAIN indexedModels
    /\ indexedModels["m1"].arr = <<1, 0, 1, 1, -1>>

(***************************************************************************)
(* Properties of loading (specification SpecLoad).                         *)
(***************************************************************************)
\* the distinct (format, url) pairs of the spec list
SourcePairs == {<<specs[k].format, specs[k].url>> : k \in 1..Len(specs)}

\* C4: once fromSpecs has started, getFileFromSource has been called exactly
\* once for each distinct (format, url) pair of the spec list and for nothing
\* else, at every point of the load: Annotation.fromSpec is always handed
\* the file and never fetches.
FetchOncePerSource ==
    /\ pc = "start" => fetches = << >>
    /\ pc # "start" =>
          /\ DOMAIN fetches = {sourceKey(specs[k]) : k \in 1..Len(specs)}
          /\ Cardinality(DOMAIN fetches) = Cardinality(SourcePairs)
          /\ \A key \in DOMAIN fetches : fetches[key] = 1
    /\ pc \in {"loop", "resolved"} => \A k \in 1..Len(files) : files[k].defined

\* a finished load of two specs that share format and url and differ in
\* schema and id: one fetch
FetchOncePerSourceWitness ==
    /\ pc = "resolved"
    /\ Len(specs) = 2
    /\ sourceKey(specs[1]) = sourceKey(specs[2])
    /\ specs[1].schema # specs[2].schema
    /\ specs[1].id # specs[2].id
    /\ Len(made) = 2
    /\ fetches = (sourceKey(specs[1]) :> 1)

\* the k-th Annotation.fromSpec call got a CIF file with at least one block
CifCall(k) == files[k].file.format = "cif" /\ Len(files[k].file.data.blocks) > 0

\* the names of the categories a block declares
Declared(block) == {block.categories.declared[p] : p \in 1..Len(block.categories.declared)}

\* C6: in every Annotation.fromSpec call on a CIF file whose block selection
\* succeeds: when the spec names no category and the block declares one, the
\* Annotation holds the first declared category of the block; when the block
\* declares no category, or the spec names a category the block does not
\* contain, the call throws.
CategorySelection ==
    \A k \in 1..Len(made) :
        CifCall(k) =>
            LET spec == specs[k]
                selected == selectBlock(files[k].file.data.blocks, spec.cifBlock)
            IN ~selected.threw =>
                  LET block == selected.value
                  IN /\ (spec.cifCategory = undefined /\ Len(block.categories.declared) > 0) =>
                            /\ ~made[k].threw
                            /\ made[k].value.data.data.name = block.categories.declared[1]
                     /\ Len(block.categories.declared) = 0 => made[k].threw
                     /\ (spec.cifCategory # undefined
                            /\ spec.cifCategory \notin Declared(block)) => made[k].threw

\* the block that the selector of the spec designates, as a set of positions
\* in the block list: empty when there is none
DesignatedBlock(blocks, blockSpec) ==
    CASE blockSpec.name = "first" -> {1} \cap (1..Len(blocks))
      [] blockSpec.name = "index" -> {blockSpec.params.index + 1} \cap (1..Len(blocks))
      [] blockSpec.name = "header" ->
            LET found == {p \in 1..Len(blocks) : blocks[p].header = blockSpec.params.header}
            IN IF found = {} THEN {} ELSE {Min(found)}

\* C7: every Annotation.fromSpec call on a CIF file works on block 0 for
\* 'first', on the block at the 0-based index for 'index', on the first
\* block with the given header for 'header' (its outcome is the outcome of
\* category selection in that block); when the file has no block, the index
\* is outside the list or no block has the header, the call throws and
\* yields no Annotation.
BlockSelection ==
    \A k \in 1..Len(made) :
        files[k].file.format = "cif" =>
            LET spec == specs[k]
                blocks == files[k].file.data.blocks
                designated == DesignatedBlock(blocks, spec.cifBlock)
            IN IF designated = {}
               THEN /\ made[k].threw
                    /\ made[k].error \in {"No block in CIF", "CIF block with index not found",
                                          "CIF block with header not found"}
               ELSE \A p \in designated :
                       LET category == selectCategory(blocks[p], spec.cifCategory)
                       IN made[k] = IF category.threw
                                    THEN category
                                    ELSE Returned(Annotation(CifData(category.value),
                                                             spec.schema))

\* a load whose first spec selects by a header that two blocks carry and
\* gets a category of the first of them, and whose second spec gives an
\* index outside the block list and fails
BlockSelectionWitness ==
    /\ Len(made) = 2
    /\ specs[1].cifBlock = BlockHeader("B0")
    /\ ~made[1].threw
    /\ made[1].value.data.data.name = "annot"
    /\ specs[2].cifBlock = BlockIndex(3)
    /\ made[2].threw
    /\ pc = "rejected"

(***************************************************************************)
(* Properties of JSON row parsing (specification SpecJson).                *)
(***************************************************************************)
\* the column arrays of a payload under a schema: the arrays under the keys
\* that belong to the vocabulary of the schema
Columns(js, annotationSchema) == (DOMAIN js.cols) \cap FieldsForSchemas[annotationSchema]

\* C5: for an object-of-arrays payload and any schema: when the column
\* arrays differ in length, getRowsFromJson throws the format error; when
\* they all have the same length n, it returns exactly n rows, and row i has
\* one field per column, holding element i of that column.
ObjectOfArraysRows ==
    (rowsResult.called /\ ~data.data.isArray) =>
        LET cols == data.data.cols
            columns == Columns(data.data, schema)
            lengths == {Len(cols[key]) : key \in columns}
            result == rowsResult.result
        IN /\ Cardinality(lengths) > 1 => result.threw
           /\ Cardinality(lengths) = 1 =>
                 /\ ~result.threw
                 /\ \A n \in lengths :
                       /\ Len(result.rows) = n
                       /\ \A i \in 1..n :
                             /\ DOMAIN result.rows[i] = columns
                             /\ \A key \in columns : result.rows[i][key] = cols[key][i]

\* a payload with two columns of the same length 2 (and a payload array of
\* another length) was parsed into two rows
ObjectOfArraysRowsWitness ==
    /\ rowsResult.called
    /\ schema = "residue"
    /\ Columns(data.data, schema) = {"label_asym_id", "label_seq_id"}
    /\ Len(data.data.cols.label_asym_id) = 2
    /\ "color" \in DOMAIN data.data.cols
    /\ Len(data.data.cols.color) = 1
    /\ ~rowsResult.result.threw
    /\ rowsResult.result.rows = << [label_asym_id |-> "A", label_seq_id |-> 15],
                                   [label_asym_id |-> "B", label_seq_id |-> 15] >>

(***************************************************************************)
(* Properties of field access (specification Spec).                        *)
(***************************************************************************)
\* C11: a getValueForLocation call that returns gives undefined when the row
\* index resolved for the atom is -1, whatever the field name and the kind of
\* source; for a row index of the source it gives undefined when the row
\* lacks the field or, for CIF, when the value kind of the field at that row
\* is not Present.
FieldAccessor ==
    (last.called /\ ~last.threw) =>
        /\ last.iRow = -1 => last.value = undefined
        /\ last.iRow >= 0 =>
              IF data.format = "json"
              THEN IF data.data.isArray
                   THEN last.fieldName \notin DOMAIN data.data.items[last.iRow + 1]
                            => last.value = undefined
                   ELSE (\/ last.fieldName \notin DOMAIN data.data.cols
                         \/ last.iRow >= Len(data.data.cols[last.fieldName]))
                            => last.value = undefined
              ELSE (\/ last.fieldName \notin DOMAIN data.data.fields
                    \/ data.data.fields[last.fieldName][last.iRow + 1].kind # Present)
                       => last.value = undefined

(***************************************************************************)
(* Properties of references (specifications SpecLoad and Spec).            *)
(***************************************************************************)
\* the field is in no row of the source
InNoRow(fieldName) ==
    IF data.format = "cif"
    THEN fieldName \notin DOMAIN data.data.fields
    ELSE IF data.data.isArray
         THEN \A k \in 1..Len(data.data.items) : fieldName \notin DOMAIN data.data.items[k]
         ELSE fieldName \notin DOMAIN data.data.cols

\* C12: getAnnotation(id) returns undefined for every id that is not the id
\* of a loaded spec, and a getValueForLocation call with a field name that is
\* in no row returns undefined and does not throw, for every atom.
ReferenceErrorsNeverThrow ==
    /\ (got.called /\ got.method = "getAnnotation"
            /\ \A k \in 1..Len(specs) : specs[k].id # got.id)
          => got.result.kind = "undefined"
    /\ (last.called /\ InNoRow(last.fieldName))
          => (~last.threw /\ last.value = undefined)

(***************************************************************************)
(* Properties of a load as a whole (specification SpecLoad).               *)
(***************************************************************************)
\* the position of the last spec of the list that has the id
LastWithId(id) == Max({k \in 1..Len(specs) : specs[k].id = id})

FormatErrorsFailAtLoad ==
    /\ \A k \in 1..Len(made) :
          LET file == files[k].file
          IN (/\ file.format = "json"
              /\ ~file.data.isArray
              /\ getRowsFromJson(file.data, specs[k].schema).threw) => made[k].threw
    /\ pc = "resolved" =>
          \A id \in DOMAIN dict.of : ~getRows(dict.of[id].data, dict.of[id].schema).threw
    /\ last.called => ~last.threw

(***************************************************************************)
(* Properties of the color theme (specification SpecTheme).                *)
(***************************************************************************)
\* the annotation that the theme refers to cannot be had
NoAnnotationForTheme ==
    \/ ctx.structure \in {"absent", "empty"}
    \/ ~ctx.hasProperty
    \/ ~ctx.value.defined
    \/ props.url \notin ctx.value.urls

\* C16: when the structure is absent or empty, the model has no annotations
\* property or the annotation of the theme's url is not present, the theme
\* is constructed without throwing and its color function gives the
\* background color for every location; the missing annotation of a model
\* that has the property is logged; for bond and other non-element locations
\* the color is the background color in every case.
ColorThemeFallback ==
    /\ (theme.built /\ NoAnnotationForTheme) =>
          /\ ~theme.threw
          /\ painted.called => painted.color = props.background
    /\ (theme.built /\ ctx.structure = "present" /\ ctx.hasProperty
            /\ (~ctx.value.defined \/ props.url \notin ctx.value.urls))
          => Len(theme.logged) = 1
    /\ (painted.called /\ painted.location.kind # "element")
          => painted.color = props.background

\* the model has annotation u1, the theme asks for u2: the miss was logged
\* and an atom that u2 would color got the background color
ColorThemeFallbackWitness ==
    /\ ctx.value = ValueOf({"u1"})
    /\ props.url = "u2"
    /\ theme.built
    /\ theme.logged # << >>
    /\ painted.called
    /\ painted.location = [kind |-> "element", element |-> 0]
    /\ painted.color = props.background


(***************************************************************************)
(* Properties of parameter validation (specification SpecParams).          *)
(***************************************************************************)
\* the schema keys of a given requiredness
KeysWith(required) ==
    {params[i].key : i \in {j \in 1..Len(params) : params[j].value.required = required}}

\* the value is one that the type of the field accepts
Accepted(field, value) == \E basic \in field.type.anyOf : is(basic, value)

\* C18: paramsValidationIssues(schema, values, options) returns undefined
\* exactly when every schema key that is an own key of values has a value its
\* field type accepts, every required key is an own key of values, with
\* requireAll every optional key is an own key of values too, and with
\* noExtra values has no own key outside the schema; in every other case
\* it returns a list of at least one issue.
ParamsValidation ==
    issues # NotValidated =>
        /\ issues.kind = "undefined" <=>
              /\ \A i \in 1..Len(params) :
                    hasOwn(values, params[i].key) =>
                        Accepted(params[i].value, OwnValue(values, params[i].key))
              /\ KeysWith(TRUE) \subseteq OwnKeys(values)
              /\ options.requireAll => KeysWith(FALSE) \subseteq OwnKeys(values)
              /\ options.noExtra => OwnKeys(values) \subseteq OwnKeys(params)
        /\ issues.kind # "undefined" => issues.kind = "issues" /\ Len(issues.list) >= 1

\* a call with noExtra that returned undefined for a schema of a required
\* and an optional key, the optional one being left out of the values
ParamsValidationWitness ==
    /\ issues = NoIssues
    /\ options.noExtra
    /\ ~options.requireAll
    /\ KeysWith(TRUE) # {}
    /\ KeysWith(FALSE) \ OwnKeys(values) # {}
    /\ OwnKeys(values) # {}


(***************************************************************************)
(* Shape of the row-resolution arrays (specification Spec).                *)
(***************************************************************************)
\* C19: every row-resolution array, when it is stored and for as long as
\* it is cached, has one entry per atom of its model; every entry is -1 or
\* a valid row index 0..nRows-1; and the entry of atom i is -1 exactly when
\* the matched ranges of no row cover atom i.
ResolutionArrayShape ==
    \A key \in DOMAIN indexedModels :
        LET model == ModelById(key)
            arr == indexedModels[key].arr
        IN /\ Len(arr) = nAtoms(model)
           /\ \A i \in AtomIndices(model) : arr[i + 1] \in (-1)..(Len(Rows) - 1)
           /\ \A covered \in {UNION {MatchedAtoms(model, k) : k \in RowIndices}} :
                 \A i \in AtomIndices(model) : arr[i + 1] = -1 <=> i \notin covered

\* an array answered from the cache, of two rows, some of whose atoms no
\* row covers, some resolve to row 0 and some to row 1
ResolutionArrayShapeWitness ==
    /\ last.called
    /\ ~last.threw
    /\ ~last.computed
    /\ last.model \in DOMAIN indexedModels
    /\ Len(Rows) = 2
    /\ \A r \in {-1, 0, 1} :
          \E i \in AtomIndices(ModelById(last.model)) :
              indexedModels[last.model].arr[i + 1] = r


(***************************************************************************)
(* Rows without selector fields (specification Spec).                      *)
(***************************************************************************)
\* the rows of the Annotation that carry none of the selector fields of its
\* schema
RowsWithoutSelectors == {k \in RowIndices : DOMAIN Rows[k + 1] = {}}

RangeFields ==
    IF schema = "residue-range"
    THEN [chain |-> "label_asym_id", beg |-> "beg_label_seq_id",
          end |-> "end_label_seq_id", seq |-> "label_seq_id"]
    ELSE [chain |-> "auth_asym_id", beg |-> "beg_auth_seq_id",
          end |-> "end_auth_seq_id", seq |-> "auth_seq_id"]

\* the atoms of the chain the row names whose residue number lies between
\* the begin and the end of the row, an absent bound not bounding
AtomsInRange(model, row) ==
    {i \in AtomIndices(model) :
        LET a == atomAt(model, i)
            f == RangeFields
        IN /\ f.chain \in DOMAIN row => a[f.chain] = row[f.chain]
           /\ f.beg \in DOMAIN row => row[f.beg] <= a[f.seq]
           /\ f.end \in DOMAIN row => a[f.seq] <= row[f.end]}

\* C21: under residue-range and auth-residue-range a row matches exactly
\* the atoms of its chain whose residue number n, in the numbering of the
\* schema, satisfies begin <= n <= end, an absent begin or end leaving that
\* side unbounded; a row with begin > end matches no atom, and the array is
\* built without an error.
ResidueRangeInclusive ==
    \A key \in DOMAIN indexedModels :
        schema \in {"residue-range", "auth-residue-range"} =>
            \A k \in RowIndices :
                \A row \in {Rows[k + 1]} :
                    /\ MatchedAtoms(ModelById(key), k) = AtomsInRange(ModelById(key), row)
                    /\ ({RangeFields.beg, RangeFields.end} \subseteq DOMAIN row
                            /\ row[RangeFields.beg] > row[RangeFields.end])
                          => MatchedAtoms(ModelById(key), k) = {}

\* residue-range rows A:10-20 and then A:20-10: the array was built, the
\* second row holds no atom and the atoms of the first stay resolved to it
ResidueRangeInclusiveWitness ==
    /\ schema = "residue-range"
    /\ Len(Rows) = 2
    /\ {"beg_label_seq_id", "end_label_seq_id"} \subseteq DOMAIN Rows[2]
    /\ Rows[2].beg_label_seq_id > Rows[2].end_label_seq_id
    /\ \E key \in DOMAIN indexedModels :
          LET arr == indexedModels[key].arr
          IN /\ \E i \in AtomIndices(ModelById(key)) : arr[i + 1] = 0
             /\ \A i \in AtomIndices(ModelById(key)) : arr[i + 1] # 1


(***************************************************************************)
(* Shape of the atom ranges (specification Spec).                          *)
(***************************************************************************)
\* the atom ranges that getRowForEachAtom obtains for row k
RangesOfRow(model, k) ==
    getAtomRangesForRow(model, Rows[k + 1], createIndicesAndSortings(model))

\* C22: for every row and every model whose array was built, the atom
\* ranges of the row are ordered, pairwise non-overlapping half-open ranges
\* [from, to) with 0 <= from < to <= atom count, and filling them into an
\* array of one entry per atom writes only entries from..to-1 and leaves
\* the length as it is.
AtomRangesWellFormed ==
    \A key \in DOMAIN indexedModels :
        \A k \in RowIndices :
            \A atomRanges \in {RangesOfRow(ModelById(key), k)} :
                /\ \A j \in 1..Len(atomRanges) :
                      /\ 0 <= atomRanges[j][1]
                      /\ atomRanges[j][1] < atomRanges[j][2]
                      /\ atomRanges[j][2] <= nAtoms(ModelById(key))
                /\ \A j \in 1..(Len(atomRanges) - 1) :
                      atomRanges[j][2] <= atomRanges[j + 1][1]
                /\ \A filled \in {rangesForeach(atomRanges, k,
                                               ArrayFilled(nAtoms(ModelById(key)), -1))} :
                      /\ Len(filled) = nAtoms(ModelById(key))
                      /\ \A i \in AtomIndices(ModelById(key)) :
                            filled[i + 1] = k <=>
                                \E j \in 1..Len(atomRanges) :
                                    atomRanges[j][1] <= i /\ i < atomRanges[j][2]
                /\ Len(indexedModels[key].arr) = nAtoms(ModelById(key))

\* a built array one of whose rows selects two separate ranges of atoms
AtomRangesWellFormedWitness ==
    \E key \in DOMAIN indexedModels :
        \E k \in RowIndices :
            /\ Len(RangesOfRow(ModelById(key), k)) >= 2
            /\ \E i \in AtomIndices(ModelById(key)) : indexedModels[key].arr[i + 1] = k


(***************************************************************************)
(* CIF row projection (specification Spec).                                *)
(***************************************************************************)
\* the schema fields whose cell in row iRow of the category is Present
PresentFields(category, iRow) ==
    {f \in FieldsForSchemas[schema] \cap DOMAIN category.fields :
        category.fields[f][iRow].kind = Present}

\* C23: the rows that a CIF Annotation resolves against are one per table
\* row, in table order; a row holds a field of the schema exactly when the
\* value kind of that field in that table row is Present, with the value
\* of the cell; '.' and '?' cells are left out of the row, not set to 0 or
\* the empty string.
CifRowProjection ==
    (data.format = "cif" /\ DOMAIN indexedModels # {}) =>
        \A result \in {getRowsFromCif(data.data, schema)} :
            /\ ~result.threw
            /\ Len(result.rows) = data.data.rowCount
            /\ \A iRow \in 1..data.data.rowCount :
                  /\ DOMAIN result.rows[iRow] = PresentFields(data.data, iRow)
                  /\ \A f \in PresentFields(data.data, iRow) :
                        result.rows[iRow][f] = data.data.fields[f][iRow].value

\* an all-atomic CIF Annotation whose array was built: its second table row
\* has '.' for the chain and '?' for the residue number, the row holds only
\* the element symbol and the carbon atoms of every chain resolve to it
CifRowProjectionWitness ==
    /\ data = CifData(CategoryAnnot)
    /\ schema = "all-atomic"
    /\ DOMAIN Rows[2] = {"type_symbol"}
    /\ \E key \in DOMAIN indexedModels :
          \A i \in AtomIndices(ModelById(key)) :
              atomAt(ModelById(key), i).type_symbol = "C" => indexedModels[key].arr[i + 1] = 1


(***************************************************************************)
(* Request coalescing (specification SpecLoad).                            *)
(***************************************************************************)
\* the position of the first spec of the list that has the key
FirstWithKey(key) == Min({k \in 1..Len(specs) : sourceKey(specs[k]) = key})

\* C24: getFileFromSources installs the pending operation of a key when it
\* sees the first spec with that key, before it suspends; later specs with
\* the key reuse that operation; and the array it returns has the length
\* and order of its input, entry i being the file that the operation of the
\* key of input i produced, so specs with equal keys get the same file.
RequestCoalescing ==
    /\ pc # "start" =>
          /\ DOMAIN promises.of = {sourceKey(specs[k]) : k \in 1..Len(specs)}
          /\ \A key \in DOMAIN promises.of :
                /\ fetches[key] = 1
                /\ promises.of[key].state = "pending" =>
                      promises.of[key].source = specs[FirstWithKey(key)]
          /\ \A j, k \in 1..Len(promises.order) :
                j < k => FirstWithKey(promises.order[j]) < FirstWithKey(promises.order[k])
    /\ pc \in {"loop", "resolved"} =>
          /\ Len(files) = Len(specs)
          /\ \A k \in 1..Len(specs) :
                /\ files[k].defined
                /\ promises.of[sourceKey(specs[k])].state = "fulfilled"
                /\ files[k].file = promises.of[sourceKey(specs[k])].value
                /\ files[k].file = getFileFromSource(specs[FirstWithKey(sourceKey(specs[k]))]).value
          /\ \A j, k \in 1..Len(specs) :
                sourceKey(specs[j]) = sourceKey(specs[k]) => files[j] = files[k]

\* getFileFromSources has just returned for two specs of one source: one
\* operation was installed and both entries of the array hold its file
RequestCoalescingWitness ==
    /\ pc = "loop"
    /\ iSpec = 0
    /\ Len(specs) = 2
    /\ sourceKey(specs[1]) = sourceKey(specs[2])
    /\ Len(promises.order) = 1
    /\ Len(files) = 2
    /\ files[1].defined /\ files[2].defined
    /\ files[1].file = files[2].file


(***************************************************************************)
(* Frame of the cache (specification SpecPair).                            *)
(***************************************************************************)
\* the cache of Annotation number i, before and after a step
CacheOf(i) == IF This = i THEN indexedModels ELSE peer.indexedModels
CacheOfNext(i) == IF 3 - peer'.instance = i THEN indexedModels' ELSE peer'.indexedModels

\* the step is a getValueForLocation call on Annotation number i
CallOn(i) == This = i /\ peer' = peer /\ last'.called

\* C25: a getValueForLocation call for model M adds at most the one cache
\* entry keyed by the id of M, to the cache of the Annotation it is called
\* on; no step removes or replaces an entry of either Annotation or changes
\* a cached array; and the cache of the other Annotation stays as it is.
CacheFrame ==
    [][ \A i \in {1, 2} :
            /\ \A key \in DOMAIN CacheOf(i) :
                  /\ key \in DOMAIN CacheOfNext(i)
                  /\ CacheOfNext(i)[key] = CacheOf(i)[key]
            /\ \A key \in (DOMAIN CacheOfNext(i)) \ (DOMAIN CacheOf(i)) :
                  CallOn(i) /\ last'.model = key
            /\ ~CallOn(i) => CacheOfNext(i) = CacheOf(i) ]_vars

\* both Annotations hold an array for model m1 and only the one being
\* queried holds one for m2: its last call built it
CacheFrameWitness ==
    /\ DOMAIN indexedModels = {"m1", "m2"}
    /\ DOMAIN peer.indexedModels = {"m1"}
    /\ last.called
    /\ ~last.threw
    /\ last.model = "m2"
    /\ last.computed
    /\ indexedModels["m1"].arr # peer.indexedModels["m1"].arr


(***************************************************************************)
(* Cache entries under interleaved tasks (specification SpecTasks).        *)
(***************************************************************************)
\* the complete resolution of the model of identity key: for every atom the
\* last row of the whole row list that the atom qualifies for
CompleteResolution(key) ==
    [i \in 1..nAtoms(ModelById(key)) |->
        getAnnotationForLocation_Reference(ModelById(key), i - 1, Rows)]

\* C26: under every interleaving of the calls of cooperatively scheduled
\* tasks on one Annotation, at every point where a task is suspended each
\* cache entry is the complete result of resolving all rows, and so is
\* every array that a task has read: a call finds the entry of its model
\* either absent, and then builds and stores it before any other task runs,
\* or complete.
NoHalfBuiltEntry ==
    /\ \A key \in DOMAIN indexedModels :
          indexedModels[key].arr = CompleteResolution(key)
    /\ \A t \in TaskIds :
          tasks[t].read.kind = "array" =>
              /\ tasks[t].read.model \in DOMAIN indexedModels
              /\ tasks[t].read.arr = indexedModels[tasks[t].read.model].arr
              /\ tasks[t].read.arr = CompleteResolution(tasks[t].read.model)

\* both tasks are suspended after reading the array of model m1, which
\* resolves atoms to both rows of the Annotation
NoHalfBuiltEntryWitness ==
    /\ \A t \in TaskIds :
          /\ tasks[t].pc = "suspended"
          /\ tasks[t].read.kind = "array"
          /\ tasks[t].read.model = "m1"
    /\ Len(Rows) = 2
    /\ \A r \in {0, 1} : \E i \in 1..Len(tasks[1].read.arr) : tasks[1].read.arr[i] = r


(***************************************************************************)
(* Duplicate ids (specification SpecLoad).                                 *)
(***************************************************************************)
\* the ids of the spec list
SpecIds == {specs[k].id : k \in 1..Len(specs)}

\* C27: once fromSpecs has resolved, getAnnotation(id) returns, for every id
\* of the spec list, the Annotation built from the last spec of that id;
\* getAllAnnotations returns exactly one Annotation per distinct id, the
\* one that getAnnotation returns for it; and every getAnnotation call
\* returns what every other call for the same id returns.
DuplicateIds ==
    pc = "resolved" =>
        /\ \A id \in SpecIds :
              getAnnotation(id) =
                  [kind |-> "annotation", value |-> made[LastWithId(id)].value]
        /\ Len(getAllAnnotations) = Cardinality(SpecIds)
        /\ \A id \in SpecIds :
              \E p \in 1..Len(getAllAnnotations) :
                  getAllAnnotations[p] = made[LastWithId(id)].value
        /\ (got.called /\ got.method = "getAnnotation")
              => got.result = getAnnotation(got.id)
        /\ (got.called /\ got.method = "getAllAnnotations")
              => got.result.value = getAllAnnotations


(***************************************************************************)
(* Properties of the tree functions (specification SpecTree).              *)
(***************************************************************************)
\* C28: in the map that makeNearestReprMap returns, every node of kind
\* representation is mapped to itself, also when a component has several
\* representation children.
RepresentationMapsToItself ==
    reprMap.made =>
        \A node \in Nodes(tree) :
            tree.kind[node] = "representation" =>
                node \in DOMAIN reprMap.map /\ reprMap.map[node] = node


\* the positions of the log at which the loading action of `node` was called
ActionCalls(node) ==
    {p \in 1..Len(log.events) : log.events[p].event = "action" /\ log.events[p].node = node}

\* the selector recorded for `node`: its action was called and returned one
RecordedSelector(node) ==
    IF ActionCalls(node) # {} THEN action(tree, loading.loadingActions, node) ELSE NoSelector

RECURSIVE IsBelow(_, _, _)
\* is `node` a proper descendant of `ancestor` in tree t
IsBelow(t, node, ancestor) ==
    /\ t.par[node] # 0
    /\ (t.par[node] = ancestor \/ IsBelow(t, t.par[node], ancestor))

\* the number of update.delete calls that loadTree has to make
Deletions == IF loading.deletePrevious THEN loading.previous ELSE 0

====
